---------------------------- MODULE Spec2Model ----------------------------
(***************************************************************************)
(* Smart Word Ladder: the vocabulary oracle (WordValidator), the           *)
(* breadth-first path search with its cache (PathFinder) and the game       *)
(* lifecycle (GameEngine), over a sample of the curated vocabulary.         *)
(*                                                                         *)
(* A word is a sequence of one-character strings.  The GameEngine owns one  *)
(* WordValidator ("engine") and its PathFinder owns another ("finder");     *)
(* each has its own custom_words and _wordnet_cache.  get_word_pair,        *)
(* create_game and get_daily_challenge draw from the one generator of the   *)
(* random module.                                                           *)
(***************************************************************************)
EXTENDS Integers, Sequences, FiniteSets, TLC

VARIABLES
    custom_words,       \* validator -> set of words (both cases), WordValidator.custom_words
    wordnet_cache,      \* validator -> (uppercase word -> BOOLEAN), WordValidator._wordnet_cache
    nltk_words_cache,   \* filtered NLTK corpus, the same for both validators
    wordnet,            \* lowercase words for which wordnet.synsets is non-empty
    path_cache,         \* cache key -> path, PathFinder.path_cache
    game,               \* the Game the requests address, or NoGame
    other_game,         \* the other Game of active_games, or NoGame
    now,                \* the wall clock, in seconds
    rng,                \* the state of the shared generator of the random module
    last_seed_time,     \* word_list.last_seed_time
    daily_log,          \* day of the month -> the first daily challenge handed out on it
    last                \* the operation that ran last and what it returned

vars == <<custom_words, wordnet_cache, nltk_words_cache, wordnet, path_cache, game,
          other_game, now, rng, last_seed_time, daily_log, last>>

(***************************************************************************)
(* Bounds of the model.                                                    *)
(***************************************************************************)
MaxDays == 1            \* the clock runs over the days 0..MaxDays
RngModulus == 7         \* the generator of the random module has the states 0..RngModulus-1

(***************************************************************************)
(* Characters and case conversion.                                         *)
(***************************************************************************)
UpperLetters == <<"A","B","C","D","E","F","G","H","I","J","K","L","M",
                  "N","O","P","Q","R","S","T","U","V","W","X","Y","Z">>
LowerLetters == <<"a","b","c","d","e","f","g","h","i","j","k","l","m",
                  "n","o","p","q","r","s","t","u","v","w","x","y","z">>

Range(s) == {s[i] : i \in DOMAIN s}

UpperSet == Range(UpperLetters)
LowerSet == Range(LowerLetters)

\* the letters' case mappings
UpperOf == [c \in LowerSet |-> UpperLetters[CHOOSE i \in DOMAIN LowerLetters : LowerLetters[i] = c]]
LowerOf == [c \in UpperSet |-> LowerLetters[CHOOSE i \in DOMAIN UpperLetters : UpperLetters[i] = c]]

UpperChar(c) == IF c \in LowerSet THEN UpperOf[c] ELSE c
LowerChar(c) == IF c \in UpperSet THEN LowerOf[c] ELSE c

\* str.upper() and str.lower()
Upper(w) == [i \in DOMAIN w |-> UpperChar(w[i])]
Lower(w) == [i \in DOMAIN w |-> LowerChar(w[i])]

\* str.strip(): drop the leading and the trailing blanks
RECURSIVE LStrip(_)
LStrip(w) == IF w # <<>> /\ Head(w) = " " THEN LStrip(Tail(w)) ELSE w
RECURSIVE RStrip(_)
RStrip(w) == IF w # <<>> /\ w[Len(w)] = " " THEN RStrip(SubSeq(w, 1, Len(w) - 1)) ELSE w
Strip(w) == RStrip(LStrip(w))

(***************************************************************************)
(* The vocabulary of the model: a sample of the source's word lists.       *)
(***************************************************************************)
COLD == <<"C","O","L","D">>
CORD == <<"C","O","R","D">>
WORD == <<"W","O","R","D">>
WORM == <<"W","O","R","M">>
WARM == <<"W","A","R","M">>
WARD == <<"W","A","R","D">>
GOLD == <<"G","O","L","D">>
GOOD == <<"G","O","O","D">>
MOOD == <<"M","O","O","D">>
WINE == <<"W","I","N","E">>
CORK == <<"C","O","R","K">>
MOLD == <<"M","O","L","D">>
HOUSE == <<"H","O","U","S","E">>
MOUSE == <<"M","O","U","S","E">>
HORSE == <<"H","O","R","S","E">>
RANCH == <<"R","A","N","C","H">>
LASER == <<"L","A","S","E","R">>
BRIGHT == <<"B","R","I","G","H","T">>
SHADOW == <<"S","H","A","D","O","W">>
LEAD == <<"L","E","A","D">>
LOAD == <<"L","O","A","D">>
GOAD == <<"G","O","A","D">>
GLAD == <<"G","L","A","D">>
MILK == <<"M","I","L","K">>
CREAM == <<"C","R","E","A","M">>
TIGER == <<"T","I","G","E","R">>
ROUND == <<"R","O","U","N","D">>
CIRCLE == <<"C","I","R","C","L","E">>
AREA == <<"A","R","E","A">>
AUDIO == <<"A","U","D","I","O">>

\* _load_custom_dictionary: the curated lists (written in lowercase there)
words_4 == {Lower(w) : w \in {COLD, WARM, WORD, CORD, WORM, WARD, GOLD, GOOD, MOOD, WINE,
                               LEAD, LOAD, MILK}}
words_5 == {Lower(w) : w \in {HOUSE, MOUSE, HORSE, LASER, CREAM, ROUND}}

\* _add_critical_path_words
critical_words == {COLD, CORD, WORD, WORM, WARM, WARD, GOLD, GOOD,
                   LEAD, LOAD, GOAD, GLAD, CREAM,
                   HOUSE, MOUSE, HORSE, RANCH, LASER}

\* WordValidator._excluded_words
excluded_words == {LASER}

\* the external corpora: the NLTK words corpus as read by _load_nltk_words and
\* the words WordNet has synsets for; either the NLTK data is missing (the
\* corpus fails to load, no synsets) or both are there
Environments == {[corpus |-> {}, synsets |-> {}],
                 [corpus |-> {Lower(MOLD), LASER, Lower(BRIGHT), Lower(SHADOW)},
                  synsets |-> {Lower(CORK), Lower(BRIGHT)}]}

min_word_length == 3
max_word_length == 8

\* the letters get_possible_words substitutes, in alphabetical order: those
\* of 'ABCDEFGHIJKLMNOPQRSTUVWXYZ' that occur in the four-letter vocabulary
Alphabet == <<"A","C","D","G","L","M","O","R","W">>

Validators == {"engine", "finder"}

(***************************************************************************)
(* WordValidator                                                           *)
(***************************************************************************)
CountIn(w, S) == Cardinality({i \in DOMAIN w : w[i] \in S})

\* re.match(r'^[A-Z]+$', word)
IsUpperAlpha(w) == w # <<>> /\ \A i \in DOMAIN w : w[i] \in UpperSet
\* re.match(r'^[a-zA-Z]+$', word)
Letters == UpperSet \cup LowerSet
IsAlpha(w) == w # <<>> /\ \A i \in DOMAIN w : w[i] \in Letters

unusual_letters == {"Q", "X", "Z", "J"}
vowels == {"A", "E", "I", "O", "U"}

\* WordValidator._is_good_english_word
is_good_english_word(word0) ==
    LET word == Upper(word0)
        vowel_count == CountIn(word, vowels)
        consonant_count == Len(word) - vowel_count
    IN  /\ word \notin excluded_words
        /\ IsUpperAlpha(word)
        /\ ~(Len(word) < 3 \/ Len(word) > 8)
        \* len(set(word)) < len(word) * 0.6
        /\ ~(Cardinality(Range(word)) * 10 < Len(word) * 6)
        /\ ~(CountIn(word, unusual_letters) > 1)
        /\ ~(vowel_count = 0 /\ Len(word) > 2)
        \* ratio = consonant_count / vowel_count; ratio > 4 or ratio < 0.25
        /\ (vowel_count > 0 =>
                ~(consonant_count > 4 * vowel_count \/ 4 * consonant_count < vowel_count))

\* WordValidator.__init__: the curated lists pass the quality filter, the
\* critical path words are added without it; both cases are stored
InitialCustomWords ==
    LET filtered == {w \in words_4 \cup words_5 : is_good_english_word(Upper(w))}
        all == filtered \cup critical_words
    IN  {Lower(w) : w \in all} \cup {Upper(w) : w \in all}

\* _load_nltk_words: the corpus, uppercased and filtered (empty when loading fails)
LoadNltkWords(corpus) == {Upper(w) : w \in {x \in corpus : is_good_english_word(Upper(x))}}

\* a faulty variant of the checks: the exclusion list is not consulted
FormatOkNoExclusion(word) ==
    /\ ~(Len(word) < min_word_length \/ Len(word) > max_word_length)
    /\ IsAlpha(word)

\* is_valid_word, lines 415-428, on the stripped word: length, letters, exclusion
FormatOk(word) ==
    /\ ~(Len(word) < min_word_length \/ Len(word) > max_word_length)
    /\ IsAlpha(word)
    /\ Upper(word) \notin excluded_words

\* is_valid_word, lines 409-428: the checks made before the cache is consulted;
\* a word that fails one of them is rejected and nothing is cached
PassesFormat(word0) == word0 # <<>> /\ FormatOk(Strip(word0))

\* is_valid_word, lines 434-452: the answer computed when the cache has none
LookupWord(v, word_upper, word_lower) ==
    \/ word_upper \in custom_words[v] \/ word_lower \in custom_words[v]
    \/ (nltk_words_cache # {} /\ word_upper \in nltk_words_cache)
    \/ (word_lower \in wordnet /\ is_good_english_word(word_upper))

\* is_valid_word, lines 430-452: the cached answer, or else the computed one
CachedOrLookup(v, word_upper, word_lower) ==
    IF word_upper \in DOMAIN wordnet_cache[v]
    THEN wordnet_cache[v][word_upper]
    ELSE LookupWord(v, word_upper, word_lower)

\* a faulty variant of the cache lookup: only the positive answers of the
\* cache are honoured, a word cached as invalid is looked up again
PositiveCachedOrLookup(v, word_upper, word_lower) ==
    IF word_upper \in DOMAIN wordnet_cache[v] /\ wordnet_cache[v][word_upper]
    THEN TRUE
    ELSE LookupWord(v, word_upper, word_lower)

\* a faulty variant of is_valid_word, with that lookup
is_valid_word_positive_cache(v, word0) ==
    /\ PassesFormat(word0)
    /\ PositiveCachedOrLookup(v, Upper(Strip(word0)), Lower(Strip(word0)))

\* WordValidator.is_valid_word: the value returned in the current state
is_valid_word(v, word0) ==
    /\ PassesFormat(word0)
    /\ CachedOrLookup(v, Upper(Strip(word0)), Lower(Strip(word0)))

\* a faulty variant of the caching: the answer stored for a word that is not
\* cached yet is always the negative one of line 451
CacheAfterNegative(v, probes) ==
    LET old == wordnet_cache[v]
        fresh == {w \in probes : PassesFormat(w) /\ Upper(Strip(w)) \notin DOMAIN old}
        keys == {Upper(Strip(w)) : w \in fresh}
    IN  [k \in DOMAIN old \cup keys |-> IF k \in DOMAIN old THEN old[k] ELSE FALSE]

\* the _wordnet_cache of validator v after is_valid_word ran on every word of
\* probes: each word that reaches the cache lookup and is not cached yet is
\* stored with the computed answer
CacheAfter(v, probes) ==
    LET old == wordnet_cache[v]
        fresh == {w \in probes : PassesFormat(w) /\ Upper(Strip(w)) \notin DOMAIN old}
        keys == {Upper(Strip(w)) : w \in fresh}
    IN  [k \in DOMAIN old \cup keys |->
            IF k \in DOMAIN old THEN old[k] ELSE LookupWord(v, k, Lower(k))]

\* is_one_letter_change, lines 471-476: the loop over zip(word1, word2) from
\* position i on; -1 stands for the return inside the loop, taken at the
\* second difference
RECURSIVE CountDifferences(_, _, _, _)
CountDifferences(word1, word2, i, differences) ==
    IF i > Len(word1) \/ i > Len(word2) THEN differences
    ELSE IF word1[i] # word2[i]
    THEN IF differences + 1 > 1 THEN -1
         ELSE CountDifferences(word1, word2, i + 1, differences + 1)
    ELSE CountDifferences(word1, word2, i + 1, differences)

\* a faulty variant of is_one_letter_change: the words are compared as given,
\* without the conversion to uppercase
is_one_letter_change_as_given(word1, word2) ==
    IF Len(word1) # Len(word2) THEN FALSE
    ELSE CountDifferences(word1, word2, 1, 0) = 1

\* WordValidator.is_one_letter_change
is_one_letter_change(word1, word2) ==
    IF Len(word1) # Len(word2) THEN FALSE
    ELSE CountDifferences(Upper(word1), Upper(word2), 1, 0) = 1

\* the words get_possible_words tries, position-major and alphabetical;
\* the entry equal to the word itself is the substitution it skips
Substitutions(word) ==
    LET n == Len(Alphabet)
    IN  [k \in 1..(Len(word) * n) |->
            [word EXCEPT ![((k - 1) \div n) + 1] = Alphabet[((k - 1) % n) + 1]]]

\* the words is_valid_word is called on by get_possible_words(word0)
ProbedBy(word0) == Range(Substitutions(Upper(word0))) \ {Upper(word0)}

\* a faulty variant of get_possible_words: the letter the word already has at
\* the position is substituted too
get_possible_words_no_skip(v, word0) ==
    SelectSeq(Substitutions(Upper(word0)), LAMBDA new_word : is_valid_word(v, new_word))

\* a faulty variant of get_possible_words: the loop over the letters is the
\* outer one, the loop over the positions the inner one
get_possible_words_letter_major(v, word0) ==
    LET word == Upper(word0)
        n == Len(word)
        tried == [k \in 1..(n * Len(Alphabet)) |->
                     [word EXCEPT ![((k - 1) % n) + 1] = Alphabet[((k - 1) \div n) + 1]]]
    IN  SelectSeq(tried, LAMBDA new_word : new_word # word /\ is_valid_word(v, new_word))

\* WordValidator.get_possible_words
get_possible_words(v, word0) ==
    LET word == Upper(word0)
    IN  SelectSeq(Substitutions(word), LAMBDA new_word : new_word # word /\ is_valid_word(v, new_word))

\* can_reach_target, line 550: the default of max_depth
default_max_depth == 10

\* can_reach_target, lines 580-586: the loop over the possible_words of one
\* word of the queue
RECURSIVE VisitNeighbors(_, _, _, _, _)
VisitNeighbors(possible_words, i, target_word, visited, next_queue) ==
    IF i > Len(possible_words)
    THEN [reached |-> FALSE, visited |-> visited, next_queue |-> next_queue]
    ELSE IF possible_words[i] = target_word
    THEN [reached |-> TRUE, visited |-> visited, next_queue |-> next_queue]
    ELSE IF possible_words[i] \notin visited
    THEN VisitNeighbors(possible_words, i + 1, target_word, visited \cup {possible_words[i]},
                        Append(next_queue, possible_words[i]))
    ELSE VisitNeighbors(possible_words, i + 1, target_word, visited, next_queue)

RECURSIVE ReachQueue(_, _, _, _, _, _)

\* can_reach_target, lines 577-586: the head of the queue has been expanded,
\* with the result r of the loop over its possible_words
AfterNeighbors(v, queue, target_word, expanded, r) ==
    IF r.reached
    THEN [reached |-> TRUE, visited |-> r.visited, next_queue |-> r.next_queue,
          expanded |-> expanded \cup {Head(queue)}]
    ELSE ReachQueue(v, Tail(queue), target_word, r.visited, r.next_queue,
                    expanded \cup {Head(queue)})

\* can_reach_target, lines 577-586: the loop over the words of the current depth
ReachQueue(v, queue, target_word, visited, next_queue, expanded) ==
    IF queue = <<>>
    THEN [reached |-> FALSE, visited |-> visited, next_queue |-> next_queue, expanded |-> expanded]
    ELSE AfterNeighbors(v, queue, target_word, expanded,
                        VisitNeighbors(get_possible_words(v, Head(queue)), 1, target_word,
                                       visited, next_queue))

RECURSIVE ReachLevels(_, _, _, _, _, _, _)

\* can_reach_target, lines 574-589: one depth has been processed, with the result r
AfterReachLevel(v, target_word, depth, max_depth, r) ==
    IF r.reached
    THEN [reached |-> TRUE, expanded |-> r.expanded]
    ELSE ReachLevels(v, r.next_queue, target_word, r.visited, depth + 1, max_depth, r.expanded)

\* a faulty variant of the outer loop: one depth more than max_depth is searched
ReachLevelsOneDeeper(v, queue, target_word, visited, depth, max_depth, expanded) ==
    IF ~(queue # <<>> /\ depth <= max_depth)
    THEN [reached |-> FALSE, expanded |-> expanded]
    ELSE AfterReachLevel(v, target_word, depth, max_depth,
                         ReachQueue(v, queue, target_word, visited, <<>>, expanded))

\* can_reach_target, lines 574-591: the outer loop, one depth after the other
ReachLevels(v, queue, target_word, visited, depth, max_depth, expanded) ==
    IF ~(queue # <<>> /\ depth < max_depth)
    THEN [reached |-> FALSE, expanded |-> expanded]
    ELSE AfterReachLevel(v, target_word, depth, max_depth,
                         ReachQueue(v, queue, target_word, visited, <<>>, expanded))

\* what a reachability search that ended with r leaves: the answer and the
\* words is_valid_word was called on
ReachResult(r) ==
    [reached |-> r.reached, probes |-> UNION {ProbedBy(w) : w \in r.expanded}]

\* WordValidator.can_reach_target
can_reach_target(v, start_word0, target_word0, max_depth) ==
    IF Len(start_word0) # Len(target_word0) THEN [reached |-> FALSE, probes |-> {}]
    ELSE IF Upper(start_word0) = Upper(target_word0) THEN [reached |-> TRUE, probes |-> {}]
    ELSE ReachResult(ReachLevels(v, <<Upper(start_word0)>>, Upper(target_word0),
                                 {Upper(start_word0)}, 0, max_depth, {}))

\* the absolute value
Abs(x) == IF x < 0 THEN 0 - x ELSE x

\* get_word_difficulty, lines 615-616: min(1.0, (len(word) - min_word_length) /
\* (max_word_length - min_word_length)), as a fraction
length_factor(n) ==
    IF n - min_word_length >= max_word_length - min_word_length
    THEN [num |-> 1, den |-> 1]
    ELSE [num |-> n - min_word_length, den |-> max_word_length - min_word_length]

\* get_word_difficulty, lines 621-627: abs(0.5 - ratio) * 2 for the ratio of
\* vowels to consonants (1.0 when there is no consonant), as a fraction
balance_factor(vowel_count, consonants) ==
    IF consonants = 0 THEN [num |-> 1, den |-> 1]
    ELSE [num |-> Abs(consonants - 2 * vowel_count), den |-> consonants]

\* get_word_difficulty, line 630: 0.6 * length_factor + 0.4 * balance_factor,
\* as a fraction with a positive denominator
Difficulty(lf, bf) ==
    [num |-> 3 * lf.num * bf.den + 2 * bf.num * lf.den, den |-> 5 * lf.den * bf.den]

\* WordValidator.get_word_difficulty: the score, as the fraction num / den
get_word_difficulty(word0) ==
    LET word == Lower(word0)
        vowel_count == CountIn(word, {"a", "e", "i", "o", "u"})
    IN  Difficulty(length_factor(Len(word)), balance_factor(vowel_count, Len(word) - vowel_count))

(***************************************************************************)
(* PathFinder                                                              *)
(***************************************************************************)
max_search_depth == 15

\* Python's None, for a path (a path that exists is never empty)
None == <<>>

\* cache_key = f"{start_word}_{target_word}"
CacheKey(start_word, target_word) == start_word \o <<"_">> \o target_word

\* _find_path, lines 120-136: the loop over next_words of one dequeued node
RECURSIVE VisitNextWords(_, _, _, _, _, _)
VisitNextWords(next_words, i, path, target_word, visited, next_queue) ==
    IF i > Len(next_words)
    THEN [found |-> None, visited |-> visited, next_queue |-> next_queue]
    ELSE LET next_word == Upper(next_words[i])
         IN  IF next_word \notin visited
             THEN LET new_path == Append(path, next_word)
                  IN  IF next_word = target_word
                      THEN [found |-> new_path, visited |-> visited \cup {next_word},
                            next_queue |-> next_queue]
                      ELSE VisitNextWords(next_words, i + 1, path, target_word,
                                          visited \cup {next_word},
                                          Append(next_queue, [word |-> next_word, path |-> new_path]))
             ELSE VisitNextWords(next_words, i + 1, path, target_word, visited, next_queue)

RECURSIVE ProcessQueue(_, _, _, _, _)

\* _find_path, lines 124-136: the head of the queue has been expanded, with
\* the result r of the loop over its next_words
AfterVisit(queue, target_word, expanded, r) ==
    IF r.found # None
    THEN [found |-> r.found, visited |-> r.visited, next_queue |-> r.next_queue,
          expanded |-> expanded \cup {Head(queue).word}]
    ELSE ProcessQueue(Tail(queue), target_word, r.visited, r.next_queue,
                      expanded \cup {Head(queue).word})

\* a faulty variant of the inner loop: the words found are searched before the
\* rest of the queue (a stack instead of a queue)
RECURSIVE ProcessQueueDepthFirst(_, _, _, _, _)
ProcessQueueDepthFirst(queue, target_word, visited, next_queue, expanded) ==
    IF queue = <<>>
    THEN [found |-> None, visited |-> visited, next_queue |-> <<>>, expanded |-> expanded]
    ELSE LET current == Head(queue)
             r == VisitNextWords(get_possible_words("finder", current.word), 1, current.path,
                                 target_word, visited, <<>>)
         IN  IF r.found # None
             THEN [found |-> r.found, visited |-> r.visited, next_queue |-> <<>>,
                   expanded |-> expanded \cup {current.word}]
             ELSE ProcessQueueDepthFirst(r.next_queue \o Tail(queue), target_word, r.visited,
                                         <<>>, expanded \cup {current.word})

\* _find_path, lines 114-136: the inner loop, all nodes of the current depth
ProcessQueue(queue, target_word, visited, next_queue, expanded) ==
    IF queue = <<>>
    THEN [found |-> None, visited |-> visited, next_queue |-> next_queue, expanded |-> expanded]
    ELSE AfterVisit(queue, target_word, expanded,
                    VisitNextWords(get_possible_words("finder", Head(queue).word), 1,
                                   Head(queue).path, target_word, visited, next_queue))

RECURSIVE SearchLevels(_, _, _, _, _)

\* _find_path, lines 129-139: one depth has been processed, with the result r
AfterLevel(target_word, depth, r) ==
    IF r.found # None
    THEN [path |-> r.found, expanded |-> r.expanded]
    ELSE SearchLevels(r.next_queue, target_word, r.visited, depth + 1, r.expanded)

\* a faulty variant of the outer loop: one depth more is searched
SearchLevelsOneDeeper(queue, target_word, visited, depth, expanded) ==
    IF ~(queue # <<>> /\ depth <= max_search_depth)
    THEN [path |-> None, expanded |-> expanded]
    ELSE AfterLevel(target_word, depth, ProcessQueue(queue, target_word, visited, <<>>, expanded))

\* _find_path, lines 110-142: the outer loop, one depth after the other
SearchLevels(queue, target_word, visited, depth, expanded) ==
    IF ~(queue # <<>> /\ depth < max_search_depth)
    THEN [path |-> None, expanded |-> expanded]
    ELSE AfterLevel(target_word, depth, ProcessQueue(queue, target_word, visited, <<>>, expanded))

\* what a search that ended with r leaves: the path returned (None when there
\* is none), the words is_valid_word was called on, and whether the path was cached
SearchResult(start_word, target_word, r) ==
    [path |-> r.path,
     probes |-> {start_word, target_word} \cup UNION {ProbedBy(w) : w \in r.expanded},
     cached |-> r.path # None]

\* a faulty variant of _find_path: the two words are validated before they are
\* compared
FindPathFromValidatedFirst(start_word, target_word) ==
    IF ~is_valid_word("finder", start_word)
    THEN [path |-> None, probes |-> {start_word}, cached |-> FALSE]
    ELSE IF ~is_valid_word("finder", target_word)
    THEN [path |-> None, probes |-> {start_word, target_word}, cached |-> FALSE]
    ELSE IF start_word = target_word
    THEN [path |-> <<start_word>>, probes |-> {start_word, target_word}, cached |-> FALSE]
    ELSE SearchResult(start_word, target_word,
                      SearchLevels(<<[word |-> start_word, path |-> <<start_word>>]>>,
                                   target_word, {start_word}, 0, {}))

\* _find_path, lines 92-142, on the normalised words
FindPathFrom(start_word, target_word) ==
    IF start_word = target_word
    THEN [path |-> <<start_word>>, probes |-> {}, cached |-> FALSE]
    ELSE IF ~is_valid_word("finder", start_word)
    THEN [path |-> None, probes |-> {start_word}, cached |-> FALSE]
    ELSE IF ~is_valid_word("finder", target_word)
    THEN [path |-> None, probes |-> {start_word, target_word}, cached |-> FALSE]
    ELSE SearchResult(start_word, target_word,
                      SearchLevels(<<[word |-> start_word, path |-> <<start_word>>]>>,
                                   target_word, {start_word}, 0, {}))

\* PathFinder._find_path; lines 87-88 normalise the two words to uppercase
find_path(start_word0, target_word0) == FindPathFrom(Upper(start_word0), Upper(target_word0))

\* the path cache after a call of _find_path(start_word0, target_word0) that returned r
PathCacheAfter(cache, start_word0, target_word0, r) ==
    IF r.cached
    THEN LET key == CacheKey(Upper(start_word0), Upper(target_word0))
         IN  [k \in DOMAIN cache \cup {key} |-> IF k = key THEN r.path ELSE cache[k]]
    ELSE cache

(***************************************************************************)
(* State                                                                   *)
(***************************************************************************)
\* no Game has been created yet
NoGame == [start_word |-> <<>>, target_word |-> <<>>, current_word |-> <<>>, moves |-> <<>>,
           status |-> "none", difficulty |-> "none", game_mode |-> "none",
           player_id |-> "none", created_at |-> 0, time_elapsed |-> 0]

\* what an operation reports: its name, its arguments, the error it raised
\* ("none" when it returned) and what it returned
NoResult == [op |-> "none", start |-> <<>>, target |-> <<>>, word |-> <<>>, error |-> "none",
             path |-> None, flag |-> FALSE, fallback |-> FALSE, words |-> <<>>,
             hint_level |-> 0, hint |-> [hint_type |-> "none", position |-> -1, suggested_letter |-> ""],
             args |-> <<>>, draws |-> <<>>, word_length |-> 0, rng |-> 0, optimal_moves |-> 0,
             max_depth |-> 0, difficulty |-> [num |-> 0, den |-> 1], moves_count |-> 0]

\* WordValidator.__init__ for both validators, PathFinder.__init__, no game yet
Init ==
    /\ custom_words = [v \in Validators |-> InitialCustomWords]
    /\ wordnet_cache = [v \in Validators |-> <<>>]
    /\ \E env \in Environments :
            /\ nltk_words_cache = LoadNltkWords(env.corpus)
            /\ wordnet = env.synsets
    /\ path_cache = <<>>
    /\ game = NoGame
    /\ other_game = NoGame
    /\ now = 0
    /\ rng = 0
    /\ last_seed_time = 0
    /\ daily_log = <<>>
    /\ last = NoResult

(***************************************************************************)
(* The operations of PathFinder and WordValidator.add_word                 *)
(***************************************************************************)
\* the (start, target) arguments the path operations are called with
PathQueries == {<<COLD, MOOD>>, <<Lower(COLD), WARM>>, <<HOUSE, RANCH>>, <<COLD, COLD>>,
                <<Lower(LASER), LASER>>, <<LASER, HOUSE>>, <<HOUSE, LASER>>}

\* the words add_word is called with
AddWordInputs == {Lower(MOLD), LASER, <<"W","O","O","O">>}

\* PathFinder.get_shortest_path, which is _find_path
FindPath(start_word, target_word) ==
    LET r == find_path(start_word, target_word)
    IN  /\ wordnet_cache' = [wordnet_cache EXCEPT !["finder"] = CacheAfter("finder", r.probes)]
        /\ path_cache' = PathCacheAfter(path_cache, start_word, target_word, r)
        /\ last' = [NoResult EXCEPT !.op = "find_path", !.start = start_word,
                                    !.target = target_word, !.path = r.path]
        /\ UNCHANGED <<custom_words, nltk_words_cache, wordnet, other_game, game, now, rng, last_seed_time, daily_log>>

\* PathFinder.path_exists
PathExists(start_word0, target_word0) ==
    LET start_word == Upper(start_word0)
        target_word == Upper(target_word0)
        cache_key == CacheKey(start_word, target_word)
        r == find_path(start_word, target_word)
    IN  /\ IF cache_key \in DOMAIN path_cache
           THEN /\ last' = [NoResult EXCEPT !.op = "path_exists", !.start = start_word0,
                                            !.target = target_word0, !.flag = TRUE]
                /\ UNCHANGED <<wordnet_cache, path_cache>>
           ELSE /\ wordnet_cache' = [wordnet_cache EXCEPT !["finder"] = CacheAfter("finder", r.probes)]
                /\ path_cache' = PathCacheAfter(path_cache, start_word, target_word, r)
                /\ last' = [NoResult EXCEPT !.op = "path_exists", !.start = start_word0,
                                            !.target = target_word0,
                                            !.flag = (r.path # None /\ Len(r.path) > 1)]
        /\ UNCHANGED <<custom_words, nltk_words_cache, wordnet, other_game, game, now, rng, last_seed_time, daily_log>>

\* a faulty variant of the choice: Python's index 1 read as the first element
NextWordOnPathFirst(path, target_word) ==
    IF path # None /\ Len(path) > 1 THEN path[1] ELSE target_word

\* get_next_word, lines 67 and 71-74: the second word of the path, the target
\* word when the path has no second word or there is no path
NextWordOnPath(path, target_word) ==
    IF path # None /\ Len(path) > 1 THEN path[2] ELSE target_word

\* PathFinder.get_next_word
GetNextWord(current_word0, target_word0) ==
    LET current_word == Upper(current_word0)
        target_word == Upper(target_word0)
        cache_key == CacheKey(current_word, target_word)
        r == find_path(current_word, target_word)
    IN  /\ IF cache_key \in DOMAIN path_cache
           THEN LET path == path_cache[cache_key]
                IN  /\ last' = [NoResult EXCEPT !.op = "get_next_word", !.start = current_word0,
                                                !.target = target_word0,
                                                !.word = NextWordOnPath(path, target_word)]
                    /\ UNCHANGED <<wordnet_cache, path_cache>>
           ELSE /\ wordnet_cache' = [wordnet_cache EXCEPT !["finder"] = CacheAfter("finder", r.probes)]
                /\ path_cache' = PathCacheAfter(path_cache, current_word, target_word, r)
                /\ last' = [NoResult EXCEPT !.op = "get_next_word", !.start = current_word0,
                                            !.target = target_word0,
                                            !.word = NextWordOnPath(r.path, target_word)]
        /\ UNCHANGED <<custom_words, nltk_words_cache, wordnet, other_game, game, now, rng, last_seed_time, daily_log>>

\* WordValidator.add_word, on the validator v
AddWord(v, word) ==
    /\ custom_words' = IF is_good_english_word(Upper(word))
                       THEN [custom_words EXCEPT ![v] = @ \cup {Lower(word), Upper(word)}]
                       ELSE custom_words
    /\ last' = [NoResult EXCEPT !.op = "add_word", !.word = word]
    /\ UNCHANGED <<wordnet_cache, nltk_words_cache, wordnet, other_game, path_cache, game, now, rng, last_seed_time, daily_log>>

PathNext ==
    \/ \E q \in PathQueries : FindPath(q[1], q[2])
    \/ \E q \in PathQueries : PathExists(q[1], q[2])
    \/ \E q \in PathQueries : GetNextWord(q[1], q[2])
    \/ \E word \in AddWordInputs : AddWord("finder", word)

\* the path finder and its vocabulary, used on their own
PathSpec == Init /\ [][PathNext]_vars

\* a words corpus whose words of three letters form a ladder: each word is one
\* letter from the next one and at least two letters from every other one, so
\* that the shortest path between the i-th and the j-th word has |i - j| edges
Ladder == << <<"C","A","D">>, <<"A","A","D">>, <<"A","A","C">>, <<"A","C","C">>,
             <<"A","C","A">>, <<"A","D","A">>, <<"A","D","G">>, <<"A","G","G">>,
             <<"A","G","L">>, <<"A","L","L">>, <<"A","L","M">>, <<"A","M","M">>,
             <<"A","M","O">>, <<"A","R","O">>, <<"A","R","R">>, <<"A","O","R">>,
             <<"A","O","W">>, <<"A","W","W">> >>

\* a new PathFinder where the words corpus is the ladder and WordNet is missing
DepthInit ==
    /\ custom_words = [v \in Validators |-> InitialCustomWords]
    /\ wordnet_cache = [v \in Validators |-> <<>>]
    /\ nltk_words_cache = LoadNltkWords({Lower(w) : w \in Range(Ladder)})
    /\ wordnet = {}
    /\ path_cache = <<>>
    /\ game = NoGame
    /\ other_game = NoGame
    /\ now = 0
    /\ rng = 0
    /\ last_seed_time = 0
    /\ daily_log = <<>>
    /\ last = NoResult

\* the (start, target) arguments of the searches along the ladder: 14, 15, 16
\* and 17 edges apart, and a target no path leads to
DepthQueries == {<<Ladder[18], Ladder[4]>>, <<Ladder[1], Ladder[16]>>,
                 <<Lower(Ladder[2]), Ladder[17]>>, <<Ladder[1], Ladder[17]>>,
                 <<Ladder[18], Lower(Ladder[2])>>, <<Ladder[1], Ladder[18]>>,
                 <<Ladder[1], COLD>>}

DepthNext ==
    \/ \E q \in DepthQueries : FindPath(q[1], q[2])
    \/ \E q \in DepthQueries : PathExists(q[1], q[2])

\* the path finder on the ladder
DepthSpec == DepthInit /\ [][DepthNext]_vars

(***************************************************************************)
(* The operations of WordValidator, on the validator of the GameEngine     *)
(***************************************************************************)
\* the words is_valid_word is called with: a curated word with blanks around
\* it, a word of no list, an excluded word, a word with a digit
ValidatorWords == {<<" ","c","o","l","d"," ">>, Lower(MOLD), LASER, <<"C","O","1","D">>}

\* the words get_possible_words is called with
PossibleWordsInputs == {COLD, Lower(WORD)}

\* the (start, target, max_depth) arguments can_reach_target is called with
ReachQueries == {<<Lower(GOLD), MOOD, default_max_depth>>, <<COLD, HOUSE, default_max_depth>>,
                 <<COLD, WARM, 3>>, <<COLD, WARM, 4>>,
                 <<MOLD, Lower(MOOD), default_max_depth>>}

\* the (word1, word2) arguments is_one_letter_change is called with
LetterChangeInputs == {<<Lower(COLD), CORD>>, <<CORD, Lower(COLD)>>, <<COLD, COLD>>,
                       <<COLD, WARM>>, <<COLD, HOUSE>>}

\* the words get_word_difficulty is called with
DifficultyInputs == {COLD, Lower(AREA), AUDIO, Lower(CIRCLE)}

\* WordValidator.get_word_difficulty
GetWordDifficulty(word) ==
    /\ last' = [NoResult EXCEPT !.op = "get_word_difficulty", !.word = word,
                                !.difficulty = get_word_difficulty(word)]
    /\ UNCHANGED <<custom_words, wordnet_cache, nltk_words_cache, wordnet, other_game, path_cache, game, now, rng, last_seed_time, daily_log>>

\* WordValidator.is_valid_word, on the validator v
IsValidWord(v, word) ==
    /\ wordnet_cache' = [wordnet_cache EXCEPT ![v] = CacheAfter(v, {word})]
    /\ last' = [NoResult EXCEPT !.op = "is_valid_word", !.word = word,
                                !.flag = is_valid_word(v, word)]
    /\ UNCHANGED <<custom_words, nltk_words_cache, wordnet, other_game, path_cache, game, now, rng, last_seed_time, daily_log>>

\* WordValidator.is_one_letter_change
IsOneLetterChange(word1, word2) ==
    /\ last' = [NoResult EXCEPT !.op = "is_one_letter_change", !.start = word1,
                                !.target = word2, !.flag = is_one_letter_change(word1, word2)]
    /\ UNCHANGED <<custom_words, wordnet_cache, nltk_words_cache, wordnet, other_game, path_cache, game, now, rng, last_seed_time, daily_log>>

\* WordValidator.get_possible_words, on the validator v
GetPossibleWords(v, word) ==
    /\ wordnet_cache' = [wordnet_cache EXCEPT ![v] = CacheAfter(v, ProbedBy(word))]
    /\ last' = [NoResult EXCEPT !.op = "get_possible_words", !.word = word,
                                !.words = get_possible_words(v, word)]
    /\ UNCHANGED <<custom_words, nltk_words_cache, wordnet, other_game, path_cache, game, now, rng, last_seed_time, daily_log>>

\* WordValidator.can_reach_target, on the validator v
CanReachTarget(v, start_word, target_word, max_depth) ==
    LET r == can_reach_target(v, start_word, target_word, max_depth)
    IN  /\ wordnet_cache' = [wordnet_cache EXCEPT ![v] = CacheAfter(v, r.probes)]
        /\ last' = [NoResult EXCEPT !.op = "can_reach_target", !.start = start_word,
                                    !.target = target_word, !.max_depth = max_depth,
                                    !.flag = r.reached]
        /\ UNCHANGED <<custom_words, nltk_words_cache, wordnet, other_game, path_cache, game, now, rng, last_seed_time, daily_log>>

LexiconNext ==
    \/ \E word \in ValidatorWords : IsValidWord("engine", word)
    \/ \E q \in LetterChangeInputs : IsOneLetterChange(q[1], q[2])
    \/ \E word \in PossibleWordsInputs : GetPossibleWords("engine", word)
    \/ \E q \in ReachQueries : CanReachTarget("engine", q[1], q[2], q[3])
    \/ \E word \in AddWordInputs : AddWord("engine", word)
    \/ \E word \in DifficultyInputs : GetWordDifficulty(word)

\* one WordValidator, used on its own
LexiconSpec == Init /\ [][LexiconNext]_vars

(***************************************************************************)
(* WordPairSelector (utils/word_list.py)                                   *)
(***************************************************************************)
SecondsPerDay == 86400

\* a faulty variant of the catalog: a four-letter pair is filed under length 5
GUARANTEED_SOLVABLE_PAIRS_misfiled(length, difficulty) ==
    IF length = 4
    THEN CASE difficulty = "EASY" -> <<<<COLD, WARM>>>>
           [] difficulty = "MEDIUM" -> <<<<LEAD, GOLD>>, <<MILK, CREAM>>>>
           [] difficulty = "HARD" -> <<<<WINE, CORK>>>>
    ELSE CASE difficulty = "EASY" -> <<<<HOUSE, RANCH>>, <<ROUND, CIRCLE>>>>
           [] difficulty = "MEDIUM" -> <<<<MOUSE, TIGER>>>>
           [] difficulty = "HARD" -> <<<<COLD, WARM>>, <<BRIGHT, SHADOW>>>>

\* GUARANTEED_SOLVABLE_PAIRS[length][difficulty]: a sample of every cell, in
\* the order of the source
GUARANTEED_SOLVABLE_PAIRS(length, difficulty) ==
    IF length = 4
    THEN CASE difficulty = "EASY" -> <<<<COLD, WARM>>>>
           [] difficulty = "MEDIUM" -> <<<<LEAD, GOLD>>, <<MILK, CREAM>>>>
           [] difficulty = "HARD" -> <<<<WINE, CORK>>>>
    ELSE CASE difficulty = "EASY" -> <<<<HOUSE, RANCH>>, <<ROUND, CIRCLE>>>>
           [] difficulty = "MEDIUM" -> <<<<MOUSE, TIGER>>>>
           [] difficulty = "HARD" -> <<<<BRIGHT, SHADOW>>>>

\* get_fallback_pairs: a sample of the two lists
get_fallback_pairs(length) ==
    IF length = 4 THEN <<<<COLD, WARM>>>> ELSE <<<<HOUSE, RANCH>>>>

\* the random module: random.seed(a) puts the generator into a state that is a
\* function of a, a draw returns a value that is a function of the state and
\* moves the generator to the next state
RandomSeed(a) == a % RngModulus
RandomNext(r) == (3 * r + 1) % RngModulus
\* random.choice(seq) in the state r
RandomChoice(r, seq) == seq[(r % Len(seq)) + 1]

\* time.time() at the instant 0 of the model, in seconds: one day after the epoch
ClockStart == SecondsPerDay
\* time.time()
time_time == ClockStart + now

\* get_word_pair, lines 122-140: the list the pair is chosen from
word_pairs(length0, difficulty0) ==
    LET length == IF length0 \notin {4, 5} THEN 4 ELSE length0
        difficulty == IF difficulty0 \notin {"EASY", "MEDIUM", "HARD"} THEN "MEDIUM" ELSE difficulty0
        pairs == GUARANTEED_SOLVABLE_PAIRS(length, difficulty)
    IN  IF pairs # <<>> THEN pairs ELSE get_fallback_pairs(length)

\* get_word_pair, lines 117-120: the random source rs (the generator and
\* last_seed_time) after the test `current_time - last_seed_time > 0.5`
Reseed(rs, current_time) ==
    IF 2 * (current_time - rs.last_seed_time) > 1
    THEN [rng |-> RandomSeed(current_time * 1000), last_seed_time |-> current_time]
    ELSE rs

\* get_word_pair, lines 142-146: random.choice(word_pairs)
Draw(pairs, rs) ==
    [pair |-> RandomChoice(rs.rng, pairs), rs |-> [rs EXCEPT !.rng = RandomNext(@)]]

\* get_word_pair: the pair returned and the random source it leaves behind
get_word_pair(length, difficulty, rs, current_time) ==
    Draw(word_pairs(length, difficulty), Reseed(rs, current_time))

(***************************************************************************)
(* GameEngine                                                              *)
(***************************************************************************)
max_attempts == 20
TimeLimit == 300

\* timedelta.seconds: the seconds within the day, the days are a separate field
TimedeltaSeconds(delta) == delta % SecondsPerDay

\* the instants the clock shows when it is read
Instants == {0, TimeLimit, TimeLimit + 1} \cup {d * SecondsPerDay : d \in 1..MaxDays}

\* the arguments create_game is called with: difficulty, game_mode,
\* word_length, player_id ("none" for None)
CreateInputs == {<<"EASY", "CLASSIC", 4, "ann">>, <<"HARD", "TIMED", 4, "none">>,
                 <<"HARD", "CLASSIC", 5, "none">>}

\* the words make_move is called with
MoveInputs == {CORD, Lower(WORD), WARD, WARM, Lower(COLD), LASER}

HintLevels == {1, 2, 3}

\* the values of hint_level a request can carry: HintRequest declares an int
\* without a range, so that values other than the three levels arrive too
RequestedLevels == HintLevels \cup {0, 4}

\* create_game, lines 66-78: does the drawn pair pass both checks
PairPasses(pair) ==
    /\ is_valid_word("engine", pair[1])
    /\ is_valid_word("engine", pair[2])
    /\ LET path == find_path(Upper(pair[1]), Upper(pair[2])).path
       IN  path # None /\ Len(path) > 1

\* the words one attempt calls the engine's is_valid_word on
AttemptEngineProbes(pair) ==
    IF is_valid_word("engine", pair[1]) THEN {pair[1], pair[2]} ELSE {pair[1]}

\* does the attempt reach the path search
AttemptSearches(pair) == is_valid_word("engine", pair[1]) /\ is_valid_word("engine", pair[2])

\* the path cache after the searches of the drawn pairs
RECURSIVE PathCacheAfterAll(_, _)
PathCacheAfterAll(cache, pairs) ==
    IF pairs = {} THEN cache
    ELSE LET pair == CHOOSE x \in pairs : TRUE
         IN  PathCacheAfterAll(PathCacheAfter(cache, pair[1], pair[2], find_path(pair[1], pair[2])),
                               pairs \ {pair})

RECURSIVE Attempts(_, _, _, _, _, _)

\* a faulty variant of the end of an attempt: the loop goes on after a pair
\* has passed
AfterSearchKeepsDrawing(attempt, word_length, difficulty, drawn, d, path) ==
    Attempts(attempt + 1, word_length, difficulty, d.rs, path, drawn)

\* create_game, lines 76-83: the search of attempt number `attempt` returned
\* path for the drawn pair d.pair; a path of more than one word ends the loop
AfterSearch(attempt, word_length, difficulty, drawn, d, path) ==
    IF path # None /\ Len(path) > 1
    THEN [pair |-> d.pair, path |-> path, rs |-> d.rs, drawn |-> drawn]
    ELSE Attempts(attempt + 1, word_length, difficulty, d.rs, path, drawn)

\* create_game, lines 58-83: get_word_pair returned d in attempt number
\* `attempt`; path is what the variable path holds from the attempts before
AfterDraw(attempt, word_length, difficulty, path, drawn, d) ==
    IF ~AttemptSearches(d.pair)
    THEN Attempts(attempt + 1, word_length, difficulty, d.rs, path, Append(drawn, d.pair))
    ELSE AfterSearch(attempt, word_length, difficulty, Append(drawn, d.pair), d,
                     find_path(Upper(d.pair[1]), Upper(d.pair[2])).path)

\* create_game, lines 56-84: the loop `for attempt in range(max_attempts)`
\* from attempt number `attempt` on; drawn lists the pairs drawn so far; the
\* result holds the pair drawn last (<<>> when none was drawn)
Attempts(attempt, word_length, difficulty, rs, path, drawn) ==
    IF attempt >= max_attempts
    THEN [pair |-> IF drawn = <<>> THEN <<>> ELSE drawn[Len(drawn)],
          path |-> path, rs |-> rs, drawn |-> drawn]
    ELSE AfterDraw(attempt, word_length, difficulty, path, drawn,
                   get_word_pair(word_length, difficulty, rs, time_time))

\* a faulty variant of the fallback: the same pair for every word_length
FallbackPairFixed(word_length) == <<COLD, WARM>>

\* create_game, lines 88-91: the fallback pair
FallbackPair(word_length) ==
    IF word_length = 4 THEN <<COLD, WARM>> ELSE <<HOUSE, RANCH>>

\* a faulty variant of the construction: the game starts at the target word
NewGameAtTarget(pair, difficulty, game_mode, player_id) ==
    [start_word |-> Upper(pair[1]), target_word |-> Upper(pair[2]),
     current_word |-> Upper(pair[2]), moves |-> <<>>, status |-> "in_progress",
     difficulty |-> difficulty, game_mode |-> game_mode, player_id |-> player_id,
     created_at |-> now, time_elapsed |-> 0]

\* create_game, lines 99-113: the Game constructed for the pair
NewGame(pair, difficulty, game_mode, player_id) ==
    [start_word |-> Upper(pair[1]), target_word |-> Upper(pair[2]),
     current_word |-> Upper(pair[1]), moves |-> <<>>, status |-> "in_progress",
     difficulty |-> difficulty, game_mode |-> game_mode, player_id |-> player_id,
     created_at |-> now, time_elapsed |-> 0]

\* create_game, lines 85-116: the loop has ended with a; the fallback pair is
\* taken and searched when path holds no path of more than one word
Created(difficulty, game_mode, word_length, player_id, a) ==
    LET fallback == a.path = None \/ Len(a.path) <= 1
        pair == IF fallback THEN FallbackPair(word_length) ELSE a.pair
        drawn == Range(a.drawn)
        searched == {x \in drawn : AttemptSearches(x)} \cup (IF fallback THEN {pair} ELSE {})
    IN  /\ wordnet_cache' =
               [wordnet_cache EXCEPT
                   !["engine"] = CacheAfter("engine", UNION {AttemptEngineProbes(x) : x \in drawn}),
                   !["finder"] = CacheAfter("finder", UNION {find_path(x[1], x[2]).probes : x \in searched})]
        /\ path_cache' = PathCacheAfterAll(path_cache, searched)
        /\ game' = NewGame(pair, difficulty, game_mode, player_id)
        /\ rng' = a.rs.rng
        /\ last_seed_time' = a.rs.last_seed_time
        /\ last' = [NoResult EXCEPT !.op = "create_game", !.fallback = fallback,
                                    !.args = <<difficulty, game_mode, word_length, player_id>>,
                                    !.draws = a.drawn]

\* GameEngine.create_game
CreateGame(difficulty, game_mode, word_length, player_id) ==
    /\ game = NoGame
    /\ Created(difficulty, game_mode, word_length, player_id,
               Attempts(0, word_length, difficulty,
                        [rng |-> rng, last_seed_time |-> last_seed_time], None, <<>>))
    /\ UNCHANGED <<custom_words, nltk_words_cache, wordnet, other_game, now, daily_log>>

\* the error messages make_move raises
GameTerminal == "Game is already completed"
TimeExceeded == "Time limit exceeded"
InvalidWord == "Invalid word"
NotOneLetter == "Word must differ by exactly one letter"
AlreadyUsed == "Word already used in this game"
IllegalMove == {NotOneLetter, AlreadyUsed}

\* make_move, lines 139-143: the seconds make_move computes for a TIMED game
ElapsedSeconds == TimedeltaSeconds(now - game.created_at)

\* a faulty variant of the checks of make_move: the list of moves is shared by
\* the games, so that a word played in another game counts as used
MoveErrorSharedMoves(word0) ==
    LET word == Upper(word0)
    IN  IF game.status # "in_progress" THEN GameTerminal
        ELSE IF game.game_mode = "TIMED" /\ ElapsedSeconds > TimeLimit THEN TimeExceeded
        ELSE IF ~is_valid_word("engine", word) THEN InvalidWord
        ELSE IF ~is_one_letter_change(game.current_word, word) THEN NotOneLetter
        ELSE IF word \in Range(game.moves) \cup Range(other_game.moves) \/ word = game.start_word
        THEN AlreadyUsed
        ELSE "none"

\* a faulty variant of the checks of make_move: the one-letter check is missing
MoveErrorNoOneLetter(word0) ==
    LET word == Upper(word0)
    IN  IF game.status # "in_progress" THEN GameTerminal
        ELSE IF game.game_mode = "TIMED" /\ ElapsedSeconds > TimeLimit THEN TimeExceeded
        ELSE IF ~is_valid_word("engine", word) THEN InvalidWord
        ELSE IF word \in Range(game.moves) \/ word = game.start_word THEN AlreadyUsed
        ELSE "none"

\* a faulty variant: the check for a reused word is missing
MoveErrorNoReuse(word0) ==
    LET word == Upper(word0)
    IN  IF game.status # "in_progress" THEN GameTerminal
        ELSE IF game.game_mode = "TIMED" /\ ElapsedSeconds > TimeLimit THEN TimeExceeded
        ELSE IF ~is_valid_word("engine", word) THEN InvalidWord
        ELSE IF ~is_one_letter_change(game.current_word, word) THEN NotOneLetter
        ELSE "none"

\* a faulty variant: the status check is missing
MoveErrorNoTerminal(word0) ==
    LET word == Upper(word0)
    IN  IF game.game_mode = "TIMED" /\ ElapsedSeconds > TimeLimit THEN TimeExceeded
        ELSE IF ~is_valid_word("engine", word) THEN InvalidWord
        ELSE IF ~is_one_letter_change(game.current_word, word) THEN NotOneLetter
        ELSE IF word \in Range(game.moves) \/ word = game.start_word THEN AlreadyUsed
        ELSE "none"

\* make_move, lines 131-154: the error make_move(word0) raises in the current
\* state, "none" when the move is accepted
MoveError(word0) ==
    LET word == Upper(word0)
    IN  IF game.status # "in_progress" THEN GameTerminal
        ELSE IF game.game_mode = "TIMED" /\ ElapsedSeconds > TimeLimit THEN TimeExceeded
        ELSE IF ~is_valid_word("engine", word) THEN InvalidWord
        ELSE IF ~is_one_letter_change(game.current_word, word) THEN NotOneLetter
        ELSE IF word \in Range(game.moves) \/ word = game.start_word THEN AlreadyUsed
        ELSE "none"

\* a faulty variant of the time check: time_elapsed is recorded whatever the
\* mode of the game
TimeCheckedAnyMode == [game EXCEPT !.time_elapsed = ElapsedSeconds]

\* make_move, lines 138-143: the game once the time check has passed
TimeChecked ==
    IF game.game_mode = "TIMED" THEN [game EXCEPT !.time_elapsed = ElapsedSeconds] ELSE game

\* make_move, line 141: the game given up when the time limit is exceeded
Abandoned(g) == [g EXCEPT !.status = "abandoned"]

\* a faulty variant of the update: current_word is left as it was
ApplyMoveKeepsCurrent(g, word) ==
    [g EXCEPT !.moves = Append(@, word),
              !.status = IF word = g.target_word THEN "completed" ELSE @]

\* a faulty variant of the update: the target test reads the word the game
\* was at before the move
ApplyMoveStaleTarget(g, word) ==
    [g EXCEPT !.moves = Append(@, word),
              !.current_word = word,
              !.status = IF g.current_word = g.target_word THEN "completed" ELSE @]

\* a faulty variant of the update: reaching the target does not end the game
ApplyMoveStatusKept(g, word) ==
    [g EXCEPT !.moves = Append(@, word),
              !.current_word = word]

\* make_move, lines 157-163: the accepted word is appended and becomes the
\* current word; reaching the target completes the game
ApplyMove(g, word) ==
    [g EXCEPT !.moves = Append(@, word),
              !.current_word = word,
              !.status = IF word = g.target_word THEN "completed" ELSE @]

\* a faulty variant of make_move: the word is appended before it is validated
GameAfterAppendFirst(word0) ==
    LET error == MoveError(word0)
    IN  CASE error = GameTerminal -> game
          [] error = TimeExceeded -> Abandoned(game)
          [] OTHER -> ApplyMove(TimeChecked, Upper(word0))

\* a faulty variant of make_move: a word from which no path leads to the
\* target is not played
GameAfterOnPathOnly(word0) ==
    LET error == MoveError(word0)
    IN  CASE error = GameTerminal -> game
          [] error = TimeExceeded -> Abandoned(game)
          [] error \in {InvalidWord, NotOneLetter, AlreadyUsed} -> TimeChecked
          [] error = "none" ->
                 IF /\ Upper(word0) # game.target_word
                    /\ find_path(Upper(word0), game.target_word).path = None
                 THEN TimeChecked
                 ELSE ApplyMove(TimeChecked, Upper(word0))

\* make_move, lines 131-177: the game make_move(word0) leaves behind
GameAfter(word0) ==
    LET error == MoveError(word0)
    IN  CASE error = GameTerminal -> game
          [] error = TimeExceeded -> Abandoned(game)
          [] error \in {InvalidWord, NotOneLetter, AlreadyUsed} -> TimeChecked
          [] error = "none" -> ApplyMove(TimeChecked, Upper(word0))

\* GameEngine.make_move
MakeMove(word0) ==
    LET word == Upper(word0)
        error == MoveError(word0)
        is_target == word = game.target_word
        \* lines 145-147: is_valid_word is reached once the status and the time checks passed
        validated == error \notin {GameTerminal, TimeExceeded}
        \* lines 165-167: the search for the remaining path
        searched == error = "none" /\ ~is_target
        remaining == find_path(word, game.target_word)
    IN  /\ game # NoGame
        \* lines 179-184: is_target and moves_count of the MoveResult
        /\ last' = [NoResult EXCEPT !.op = "make_move", !.error = error,
                                    !.flag = (error = "none" /\ is_target),
                                    !.moves_count = IF error = "none"
                                                    THEN Len(GameAfter(word0).moves) ELSE 0]
        /\ game' = GameAfter(word0)
        /\ wordnet_cache' =
               [wordnet_cache EXCEPT
                   !["engine"] = IF validated THEN CacheAfter("engine", {word}) ELSE @,
                   !["finder"] = IF searched THEN CacheAfter("finder", remaining.probes) ELSE @]
        /\ path_cache' = IF searched
                         THEN PathCacheAfter(path_cache, word, game.target_word, remaining)
                         ELSE path_cache
        /\ UNCHANGED <<custom_words, nltk_words_cache, wordnet, other_game, now, rng, last_seed_time, daily_log>>

\* a faulty variant of the search for the position: the index is counted
\* from 1, as the hint text shows it
FirstDifferenceFromOne(current_word, next_word) ==
    LET differing == {i \in DOMAIN current_word : current_word[i] # next_word[i]}
    IN  IF differing = {} THEN -1
        ELSE CHOOSE i \in differing : \A j \in differing : i <= j

\* get_hint, lines 237-240 and 258-262: the first index (0-based) where the
\* two words differ, -1 when the loop finds none
FirstDifference(current_word, next_word) ==
    LET differing == {i \in DOMAIN current_word : current_word[i] # next_word[i]}
    IN  IF differing = {} THEN -1
        ELSE (CHOOSE i \in differing : \A j \in differing : i <= j) - 1

\* a Hint: its type and the optional position and suggested_letter (-1 and ""
\* stand for None)
Hint(type, position, suggested_letter) ==
    [hint_type |-> type, position |-> position, suggested_letter |-> suggested_letter]

\* a faulty variant of get_hint: the Position hint carries the position the
\* message names, counted from one
HintTowardsMessagePosition(hint_level, next_word, position) ==
    IF hint_level = 1 THEN Hint("semantic", -1, "")
    ELSE IF position = -1 THEN Hint("general", -1, "")
    ELSE IF hint_level = 2 THEN Hint("position", position + 1, "")
    ELSE Hint("letter", position, next_word[position + 1])

\* get_hint, lines 225-275: the hint towards next_word, the second word of the
\* path, with the position found by the loop over the letters
HintTowards(hint_level, next_word, position) ==
    IF hint_level = 1 THEN Hint("semantic", -1, "")
    ELSE IF position = -1 THEN Hint("general", -1, "")
    ELSE IF hint_level = 2 THEN Hint("position", position, "")
    ELSE Hint("letter", position, next_word[position + 1])

\* get_hint, lines 208-275: the hint for the path the search returned
HintOnPath(hint_level, path) ==
    IF path = None \/ Len(path) < 2 THEN Hint("general", -1, "")
    ELSE HintTowards(hint_level, Upper(path[2]),
                     FirstDifference(game.current_word, Upper(path[2])))

\* a faulty variant of get_hint: the status of the game is not looked at
HintForAnyStatus(hint_level) ==
    HintOnPath(hint_level, find_path(Upper(game.current_word), Upper(game.target_word)).path)

\* get_hint, lines 199-275: the hint returned for hint_level in the current state
HintFor(hint_level) ==
    IF game.status # "in_progress" THEN Hint("general", -1, "")
    ELSE HintOnPath(hint_level, find_path(Upper(game.current_word), Upper(game.target_word)).path)

\* a faulty variant of get_hint: a Letter hint is played at once, the word it
\* suggests becomes the next move of the game
GetHintPlaysLetter(hint_level) ==
    LET r == find_path(Upper(game.current_word), Upper(game.target_word))
    IN  /\ game # NoGame
        /\ IF game.status # "in_progress"
           THEN UNCHANGED <<wordnet_cache, path_cache>>
           ELSE /\ wordnet_cache' =
                       [wordnet_cache EXCEPT
                           !["finder"] = CacheAfter("finder", r.probes),
                           !["engine"] = IF r.path = None \/ Len(r.path) < 2
                                         THEN CacheAfter("engine", ProbedBy(game.current_word))
                                         ELSE @]
                /\ path_cache' = PathCacheAfter(path_cache, game.current_word, game.target_word, r)
        /\ last' = [NoResult EXCEPT !.op = "get_hint", !.hint_level = hint_level,
                                    !.hint = HintFor(hint_level)]
        /\ game' = IF HintFor(hint_level).hint_type = "letter"
                   THEN ApplyMove(game, Upper(r.path[2]))
                   ELSE game
        /\ UNCHANGED <<custom_words, nltk_words_cache, wordnet, other_game, now, rng, last_seed_time, daily_log>>

\* GameEngine.get_hint: what it leaves behind in the caches is the same for
\* every hint_level; the Hint it returns is HintFor(hint_level)
GetHint(hint_level) ==
    LET r == find_path(Upper(game.current_word), Upper(game.target_word))
    IN  /\ game # NoGame
        /\ IF game.status # "in_progress"
           THEN UNCHANGED <<wordnet_cache, path_cache>>
           ELSE /\ wordnet_cache' =
                       [wordnet_cache EXCEPT
                           !["finder"] = CacheAfter("finder", r.probes),
                           !["engine"] = IF r.path = None \/ Len(r.path) < 2
                                         THEN CacheAfter("engine", ProbedBy(game.current_word))
                                         ELSE @]
                /\ path_cache' = PathCacheAfter(path_cache, game.current_word, game.target_word, r)
        /\ last' = [NoResult EXCEPT !.op = "get_hint", !.hint_level = hint_level,
                                    !.hint = HintFor(hint_level)]
        /\ UNCHANGED <<custom_words, nltk_words_cache, wordnet, other_game, game, now, rng, last_seed_time, daily_log>>

\* a faulty variant of the chain check: current_check stays at start_word
MovesChainFromStart(g) ==
    \A i \in 1..Len(g.moves) : is_one_letter_change(g.start_word, g.moves[i])

\* validate_game_state, lines 350-355: each move is one letter from the word
\* before it, the first one from start_word
MovesChain(g) ==
    \A i \in 1..Len(g.moves) :
        is_one_letter_change((<<g.start_word>> \o g.moves)[i], g.moves[i])

\* GameEngine.validate_game_state
ValidateGameState ==
    LET start_ok == is_valid_word("engine", game.start_word)
        target_ok == is_valid_word("engine", game.target_word)
        current_ok == is_valid_word("engine", game.current_word)
        probes == IF ~start_ok THEN {game.start_word}
                  ELSE IF ~target_ok THEN {game.start_word, game.target_word}
                  ELSE {game.start_word, game.target_word, game.current_word}
        chain_ok == MovesChain(game)
    IN  /\ game # NoGame
        /\ wordnet_cache' = [wordnet_cache EXCEPT !["engine"] = CacheAfter("engine", probes)]
        /\ last' = [NoResult EXCEPT !.op = "validate_game_state",
                                    !.flag = (start_ok /\ target_ok /\ current_ok /\ chain_ok)]
        /\ UNCHANGED <<custom_words, nltk_words_cache, wordnet, other_game, path_cache, game, now, rng, last_seed_time, daily_log>>

\* time passes; the clock is read by make_move only, for a TIMED game in progress
Tick ==
    /\ game.game_mode = "TIMED" /\ game.status = "in_progress"
    /\ \E t \in Instants : t > now /\ now' = t
    /\ last' = [NoResult EXCEPT !.op = "tick"]
    /\ UNCHANGED <<custom_words, wordnet_cache, nltk_words_cache, wordnet, other_game, path_cache, game, rng, last_seed_time, daily_log>>

Next ==
    \/ \E c \in CreateInputs : CreateGame(c[1], c[2], c[3], c[4])
    \/ \E word \in MoveInputs : MakeMove(word)
    \/ GetHint(1)
    \/ ValidateGameState
    \/ Tick

\* one game from its creation on, with the clock
Spec == Init /\ [][Next]_vars

HintNext ==
    \/ \E c \in CreateInputs : CreateGame(c[1], c[2], c[3], c[4])
    \/ \E word \in MoveInputs : MakeMove(word)
    \/ \E hint_level \in RequestedLevels : GetHint(hint_level)

\* one game and the hints of every level, without the clock
HintSpec == Init /\ [][HintNext]_vars

\* the arguments create_game is called with where the game starts from the
\* fallback pair of length 5
WanderCreateInputs == {<<"HARD", "CLASSIC", 5, "none">>, <<"HARD", "TIMED", 5, "ann">>}

\* the words make_move is called with there
WanderMoveInputs == {MOUSE, Lower(HORSE), HOUSE, RANCH, LASER}

WanderNext ==
    \/ \E c \in WanderCreateInputs : CreateGame(c[1], c[2], c[3], c[4])
    \/ \E word \in WanderMoveInputs : MakeMove(word)
    \/ \E hint_level \in HintLevels : GetHint(hint_level)
    \/ ValidateGameState

\* one game between two words that no path connects
WanderSpec == Init /\ [][WanderNext]_vars

\* the arguments create_game is called with where the player leaves the path:
\* the game goes from LEAD to GOLD
StrayCreateInputs == {<<"MEDIUM", "CLASSIC", 4, "none">>}

\* the words make_move is called with there
StrayMoveInputs == {Lower(LOAD), GOAD, GLAD, GOOD, GOLD, LEAD}

StrayNext ==
    \/ \E c \in StrayCreateInputs : CreateGame(c[1], c[2], c[3], c[4])
    \/ \E word \in StrayMoveInputs : MakeMove(word)
    \/ \E hint_level \in HintLevels : GetHint(hint_level)
    \/ ValidateGameState

\* one game where the player plays words that are not on the shortest path
StraySpec == Init /\ [][StrayNext]_vars

\* the arguments create_game is called with where two games are played
SharedCreateInputs == {<<"EASY", "CLASSIC", 4, "ann">>}

\* the words make_move is called with there
SharedMoveInputs == {CORD, Lower(WORD), WARD, WARM}

\* the requests that follow carry the game_id of the other game of active_games
\* (of a game still to be created when there is none)
AddressOther ==
    /\ game' = other_game
    /\ other_game' = game
    /\ last' = [NoResult EXCEPT !.op = "address_other"]
    /\ UNCHANGED <<custom_words, wordnet_cache, nltk_words_cache, wordnet, path_cache, now, rng,
                   last_seed_time, daily_log>>

\* the handlers of main.py are coroutines without an await: each request runs
\* to its end before the next one starts
SharedNext ==
    \/ \E c \in SharedCreateInputs : CreateGame(c[1], c[2], c[3], c[4])
    \/ \E word \in SharedMoveInputs : MakeMove(word)
    \/ GetHint(3)
    \/ AddressOther

\* two games on the one GameEngine of main.py, their requests interleaved
SharedSpec == Init /\ [][SharedNext]_vars

\* the arguments create_game is called with where the clock is observed
ClockCreateInputs == {<<"EASY", "CLASSIC", 4, "ann">>, <<"EASY", "TIMED", 4, "none">>}

\* the words make_move is called with there
ClockMoveInputs == {CORD, Lower(WORD), WARD, WARM}

\* the instants the clock shows there
ClockInstants == {TimeLimit, TimeLimit + 1}

\* time passes, whatever the mode and the status of the game
Elapse ==
    /\ \E t \in ClockInstants : t > now /\ now' = t
    /\ last' = [NoResult EXCEPT !.op = "elapse"]
    /\ UNCHANGED <<custom_words, wordnet_cache, nltk_words_cache, wordnet, other_game, path_cache, game, rng, last_seed_time, daily_log>>

ClockNext ==
    \/ \E c \in ClockCreateInputs : CreateGame(c[1], c[2], c[3], c[4])
    \/ \E word \in ClockMoveInputs : MakeMove(word)
    \/ \E hint_level \in HintLevels : GetHint(hint_level)
    \/ ValidateGameState
    \/ Elapse

\* one game, CLASSIC or TIMED, while time passes between all of its operations
ClockSpec == Init /\ [][ClockNext]_vars

(***************************************************************************)
(* The draws: get_word_pair, create_game and get_daily_challenge share the *)
(* generator of the random module.                                         *)
(***************************************************************************)
\* the day of the month at the instant 0 of the model (2 January 1970)
FirstDay == 2
\* datetime.now().date().day
DayOfMonth == FirstDay + (now \div SecondsPerDay)

\* f"{today.year}{today.month:02d}{today.day:02d}", read as a number
DateSeed(day) == 19700100 + day

\* a faulty variant of the seeding: the generator is left as it is
seed_today_missing(r, day) == r

\* get_daily_challenge, line 286: the generator after random.seed of the date
seed_today(r, day) == RandomSeed(DateSeed(day))

\* get_daily_challenge, lines 289-303: a sample of the two lists
daily_pairs_4 == <<<<COLD, WARM>>, <<LEAD, GOLD>>>>
daily_pairs_5 == <<<<HOUSE, RANCH>>, <<MOUSE, TIGER>>>>

\* get_daily_challenge, lines 305-311, in the state r of the generator
get_daily_challenge(r, day) ==
    [pair |-> RandomChoice(r, IF day % 2 = 0 THEN daily_pairs_4 ELSE daily_pairs_5),
     word_length |-> IF day % 2 = 0 THEN 4 ELSE 5,
     rng |-> RandomNext(r)]

\* get_daily_challenge, lines 313-328, for the chosen challenge c
Challenged(c) ==
    LET r == find_path(c.pair[1], c.pair[2])
    IN  /\ rng' = c.rng
        /\ wordnet_cache' = [wordnet_cache EXCEPT !["finder"] = CacheAfter("finder", r.probes)]
        /\ path_cache' = PathCacheAfter(path_cache, c.pair[1], c.pair[2], r)
        /\ daily_log' = IF DayOfMonth \in DOMAIN daily_log THEN daily_log
                        ELSE [d \in DOMAIN daily_log \cup {DayOfMonth} |->
                                 IF d = DayOfMonth
                                 THEN <<Upper(c.pair[1]), Upper(c.pair[2]), c.word_length>>
                                 ELSE daily_log[d]]
        /\ last' = [NoResult EXCEPT !.op = "get_daily_challenge",
                                    !.start = Upper(c.pair[1]), !.target = Upper(c.pair[2]),
                                    !.word_length = c.word_length,
                                    !.optimal_moves = IF r.path # None THEN Len(r.path) - 1 ELSE 6,
                                    !.flag = (DayOfMonth \in DOMAIN daily_log),
                                    !.rng = rng]

\* GameEngine.get_daily_challenge; last.flag tells whether the day had a
\* challenge before, last.rng the state the generator was found in
GetDailyChallenge ==
    /\ Challenged(get_daily_challenge(seed_today(rng, DayOfMonth), DayOfMonth))
    /\ UNCHANGED <<custom_words, nltk_words_cache, wordnet, other_game, game, now, last_seed_time>>

\* the (length, difficulty) arguments get_word_pair is called with
WordPairInputs == {<<4, "MEDIUM">>}

\* get_word_pair, called on its own
GetWordPair(length, difficulty) ==
    LET d == get_word_pair(length, difficulty, [rng |-> rng, last_seed_time |-> last_seed_time],
                           time_time)
    IN  /\ rng' = d.rs.rng
        /\ last_seed_time' = d.rs.last_seed_time
        /\ last' = [NoResult EXCEPT !.op = "get_word_pair", !.start = d.pair[1],
                                    !.target = d.pair[2]]
        /\ UNCHANGED <<custom_words, wordnet_cache, nltk_words_cache, wordnet, other_game, path_cache, game,
                       now, daily_log>>

\* the instants the clock shows when get_word_pair, create_game and
\* get_daily_challenge read it
DrawInstants == {0} \cup {d * SecondsPerDay : d \in 1..MaxDays}

\* time passes between two calls
Advance ==
    /\ \E t \in DrawInstants : t > now /\ now' = t
    /\ last' = [NoResult EXCEPT !.op = "advance"]
    /\ UNCHANGED <<custom_words, wordnet_cache, nltk_words_cache, wordnet, other_game, path_cache, game,
                   rng, last_seed_time, daily_log>>

\* the arguments create_game is called with where the draws are observed
DrawCreateInputs == {<<"EASY", "CLASSIC", 4, "ann">>, <<"MEDIUM", "TIMED", 4, "none">>,
                     <<"MEDIUM", "CLASSIC", 3, "bob">>, <<"HARD", "CLASSIC", 5, "none">>}

DrawNext ==
    \/ \E c \in DrawCreateInputs : CreateGame(c[1], c[2], c[3], c[4])
    \/ \E q \in WordPairInputs : GetWordPair(q[1], q[2])
    \/ GetDailyChallenge
    \/ Advance

\* the operations that draw from the shared generator, with the clock
DrawSpec == Init /\ [][DrawNext]_vars

(***************************************************************************)
(* The word graph, computed by sets of words instead of a queue of paths.  *)
(***************************************************************************)
\* the valid words one substitution away from word
Neighbours(word) == Range(get_possible_words("finder", word))

RECURSIVE DistanceFrom(_, _, _, _)
DistanceFrom(frontier, seen, target_word, d) ==
    IF target_word \in frontier THEN d
    ELSE IF frontier = {} THEN -1
    ELSE LET next == (UNION {Neighbours(w) : w \in frontier}) \ seen
         IN  DistanceFrom(next, seen \cup next, target_word, d + 1)

\* the number of edges of a shortest path, -1 when there is no path
Distance(start_word, target_word) == DistanceFrom({start_word}, {start_word}, target_word, 0)

\* is path a walk of the word graph without a repeated word
SimplePathIn(path) ==
    /\ \A i \in 1..(Len(path) - 1) : path[i + 1] \in Neighbours(path[i])
    /\ \A i, j \in DOMAIN path : i # j => path[i] # path[j]

\* the two words of a cache key
Separator(key) == CHOOSE k \in DOMAIN key : key[k] = "_"
KeyStart(key) == SubSeq(key, 1, Separator(key) - 1)
KeyTarget(key) == SubSeq(key, Separator(key) + 1, Len(key))

\* two words of the same length that differ at exactly one position
OneLetterApart(a, b) ==
    Len(a) = Len(b) /\ Cardinality({i \in DOMAIN a : a[i] # b[i]}) = 1

Terminal == game.status \in {"completed", "abandoned"}

\* the word was played before, or the game started from it
Used(word0) == Upper(word0) \in Range(game.moves) \/ Upper(word0) = game.start_word

(***************************************************************************)
(* Properties                                                              *)
(***************************************************************************)
\* C1: every Game returned by create_game, the fallback included, is
\* solvable: find_path(start_word, target_word) returns a path of at least
\* two words.
C1_CreatedGameSolvable ==
    last.op = "create_game" =>
        LET path == find_path(game.start_word, game.target_word).path
        IN  path # None /\ Len(path) >= 2

\* C2: in every game state moves is a simple path: the first move is a
\* one-letter change from start_word, each later move a one-letter change
\* from its predecessor, no move equals start_word and no word occurs twice.
C2_MovesSimplePath ==
    game # NoGame =>
        LET chain == <<game.start_word>> \o game.moves
        IN  /\ \A i \in 1..Len(game.moves) : OneLetterApart(chain[i], chain[i + 1])
            /\ \A i, j \in DOMAIN chain : i # j => chain[i] # chain[j]

\* three moves were accepted and the last call, a reused word, was rejected
C2_Witness ==
    Len(game.moves) >= 3 /\ last.op = "make_move" /\ last.error = AlreadyUsed

\* C3: current_word equals start_word when moves is empty and the last
\* element of moves otherwise.
C3_CurrentWord ==
    game # NoGame =>
        game.current_word = IF game.moves = <<>> THEN game.start_word
                            ELSE game.moves[Len(game.moves)]

\* a second move has just been accepted
C3_Witness ==
    Len(game.moves) = 2 /\ last.op = "make_move" /\ last.error = "none"

\* C4: Completed and Abandoned are absorbing: every later make_move fails
\* with GameTerminal and no operation changes status, moves or current_word.
C4_TerminalAbsorbing ==
    [][Terminal =>
          /\ game'.status = game.status
          /\ game'.moves = game.moves
          /\ game'.current_word = game.current_word
          /\ (last'.op = "make_move" => last'.error = GameTerminal)]_vars

\* make_move was called on a completed game
C4_Witness ==
    game.status = "completed" /\ last.op = "make_move" /\ last.error = GameTerminal

\* C5, as stated: every make_move call on a game in progress sets the status
\* to Completed if and only if the submitted word, in uppercase, equals
\* target_word.
C5_CompletedIffTarget ==
    [][\A word \in MoveInputs :
          (game.status = "in_progress" /\ MakeMove(word)) =>
              (game'.status = "completed" <=> Upper(word) = game.target_word)]_vars

\* C5, amended: every make_move call on a game in progress sets the status to
\* Completed if and only if the call is accepted and the submitted word, in
\* uppercase, equals target_word.
C5_CompletedIffAcceptedTarget ==
    [][\A word \in MoveInputs :
          (game.status = "in_progress" /\ MakeMove(word)) =>
              (game'.status = "completed" <=>
                   (last'.error = "none" /\ Upper(word) = game.target_word))]_vars

\* the move to the target has just completed the game
C5_Witness ==
    game.status = "completed" /\ last.op = "make_move" /\ last.error = "none" /\ last.flag

\* C6: make_move rejects every word that occurs in moves or equals
\* start_word, and the rejected call appends nothing to moves.
C6_ReuseRejected ==
    [][\A word \in MoveInputs :
          (game # NoGame /\ Used(word) /\ MakeMove(word)) =>
              (last'.error # "none" /\ game'.moves = game.moves)]_vars

\* the start word was submitted again after the first move and was rejected as used
C6_Witness ==
    Len(game.moves) = 1 /\ last.op = "make_move" /\ last.error = AlreadyUsed

\* C7: a make_move call that fails leaves moves and current_word as they
\* were, and every failure other than TimeExceeded leaves status as it was.
C7_FailedMoveAtomic ==
    [][(last'.op = "make_move" /\ last'.error # "none") =>
          /\ game'.moves = game.moves
          /\ game'.current_word = game.current_word
          /\ (last'.error # TimeExceeded => game'.status = game.status)]_vars

\* a game with moves made was abandoned by a move that came too late
C7_Witness ==
    /\ game.moves # <<>> /\ game.status = "abandoned"
    /\ last.op = "make_move" /\ last.error = TimeExceeded

\* C8: for a TIMED game in progress every make_move submitted more than 300
\* seconds after created_at, however long after, fails with TimeExceeded, and
\* a move submitted 300 seconds or fewer after it is not rejected for time.
C8_TimeLimit ==
    (game.game_mode = "TIMED" /\ game.status = "in_progress") =>
        \A word \in MoveInputs :
            IF now - game.created_at > TimeLimit
            THEN MoveError(word) = TimeExceeded /\ GameAfter(word).status = "abandoned"
            ELSE MoveError(word) # TimeExceeded

\* C9: for valid words start # target whose distance is within the depth
\* bound, find_path returns a path from start to target whose number of edges
\* is the minimum over all paths of the word graph.
C9_FindPathShortest ==
    \A q \in PathQueries :
        LET start_word == Upper(q[1])
            target_word == Upper(q[2])
            path == find_path(q[1], q[2]).path
        IN  (/\ start_word # target_word
             /\ is_valid_word("finder", start_word)
             /\ is_valid_word("finder", target_word)
             /\ Distance(start_word, target_word) \in 1..max_search_depth) =>
                /\ path # None
                /\ path[1] = start_word /\ path[Len(path)] = target_word
                /\ SimplePathIn(path)
                /\ Len(path) - 1 = Distance(start_word, target_word)

\* find_path returned the path through a word that is not in the curated lists
C9_Witness ==
    last.op = "find_path" /\ last.path = <<COLD, MOLD, MOOD>>

\* C10: every path in the path cache under the key of (start, target) starts
\* with start, ends with target, repeats no word and is a shortest path of
\* the word graph given by the current answers of is_valid_word.
C10_CachedPathsShortest ==
    \A key \in DOMAIN path_cache :
        LET path == path_cache[key]
        IN  /\ path[1] = KeyStart(key) /\ path[Len(path)] = KeyTarget(key)
            /\ SimplePathIn(path)
            /\ Len(path) - 1 = Distance(KeyStart(key), KeyTarget(key))

\* a word that would shorten a cached path was added after the path was cached
C10_Witness ==
    /\ last.op = "add_word" /\ last.word = Lower(MOLD)
    /\ Lower(MOLD) \in custom_words["finder"]
    /\ CacheKey(COLD, MOOD) \in DOMAIN path_cache
    /\ path_cache[CacheKey(COLD, MOOD)] = <<COLD, GOLD, GOOD, MOOD>>

\* C11: for every game in progress with a path of at least two words from
\* current_word to target_word, get_hint(game, 3) returns a Letter hint, and
\* putting suggested_letter at the 0-based position of current_word gives the
\* second word of the path find_path returns from current_word to target_word.
C11_LetterHintLeadsToNextWord ==
    LET path == find_path(game.current_word, game.target_word).path
    IN  (/\ last.op = "get_hint" /\ last.hint_level = 3
         /\ game.status = "in_progress"
         /\ path # None /\ Len(path) >= 2) =>
            /\ last.hint.hint_type = "letter"
            /\ last.hint.position \in 0..(Len(game.current_word) - 1)
            /\ [game.current_word EXCEPT ![last.hint.position + 1] = last.hint.suggested_letter]
                   = path[2]

\* a level-3 hint was given after two moves, for a letter that is not the first
C11_Witness ==
    /\ last.op = "get_hint" /\ last.hint_level = 3 /\ last.hint.hint_type = "letter"
    /\ game.status = "in_progress" /\ Len(game.moves) = 2
    /\ last.hint.position > 0

\* C12: a get_daily_challenge invocation on a day that had a challenge before
\* returns the start_word, target_word and word_length of that challenge,
\* whatever get_word_pair and create_game calls ran before or between the two.
C12_DailyChallengeDeterministic ==
    [][(last'.op = "get_daily_challenge" /\ DayOfMonth \in DOMAIN daily_log) =>
          <<last'.start, last'.target, last'.word_length>> = daily_log[DayOfMonth]]_vars

\* the challenge of a day was asked for again, and the generator was not in
\* the state the first invocation of the day had left it in
C12_Witness ==
    /\ last.op = "get_daily_challenge" /\ last.flag
    /\ last_seed_time # 0
    /\ last.rng # RandomNext(RandomSeed(DateSeed(DayOfMonth)))

\* C13: every word n of get_possible_words(w) has the length of w, is a
\* one-letter change of w and is a valid word, and w itself is not in the result.
C13_PossibleWordsAreNeighbours ==
    last.op = "get_possible_words" =>
        /\ \A i \in DOMAIN last.words :
               /\ Len(last.words[i]) = Len(last.word)
               /\ is_one_letter_change(last.word, last.words[i])
               /\ is_valid_word("engine", last.words[i])
        /\ \A i \in DOMAIN last.words :
               last.words[i] # last.word /\ last.words[i] # Upper(last.word)

\* get_possible_words of a lowercase word returned the neighbours of the word
C13_Witness ==
    /\ last.op = "get_possible_words" /\ last.word = Lower(WORD)
    /\ last.words = <<CORD, WARD, WORM>>

\* C14: is_one_letter_change(a, b) equals is_one_letter_change(b, a); it is
\* true exactly when a and b have the same length and differ, letter case
\* aside, at exactly one position; is_one_letter_change(a, a) is false.
C14_OneLetterChange ==
    last.op = "is_one_letter_change" =>
        /\ last.flag = is_one_letter_change(last.target, last.start)
        /\ last.flag = OneLetterApart(Upper(last.start), Upper(last.target))
        /\ (last.start = last.target => ~last.flag)

\* a lowercase and an uppercase word one letter apart were compared
C14_Witness ==
    /\ last.op = "is_one_letter_change" /\ last.flag
    /\ last.start = Lower(COLD) /\ last.target = CORD

\* C15: no operation other than add_word changes the answer is_valid_word
\* gives for a word, so two calls with no add_word between them agree; and
\* no operation, add_word included, turns a valid word into an invalid one.
C15_ValidityStable ==
    [][\A w \in ValidatorWords \cup AddWordInputs \cup {CORK, WORM} :
          /\ (last'.op # "add_word" =>
                  is_valid_word("engine", w)' = is_valid_word("engine", w))
          /\ (is_valid_word("engine", w) => is_valid_word("engine", w)')]_vars

\* a word was reported valid again after the answer was cached and a word was added
C15_Witness ==
    /\ last.op = "is_valid_word" /\ last.word = <<" ","c","o","l","d"," ">> /\ last.flag
    /\ COLD \in DOMAIN wordnet_cache["engine"]
    /\ MOLD \in custom_words["engine"]

\* C16: after add_word(w) for a word w that passes the quality filter and is
\* within the length bounds, is_valid_word(w) returns true, whatever
\* is_valid_word and get_possible_words calls came before.
C16_AddWordAdmits ==
    (/\ last.op = "add_word"
     /\ is_good_english_word(Upper(last.word))
     /\ Len(last.word) >= min_word_length /\ Len(last.word) <= max_word_length) =>
        is_valid_word("engine", last.word)

\* C17: every Game returned by create_game has no moves, status InProgress,
\* time_elapsed 0, current_word equal to start_word, start_word and
\* target_word in uppercase and different, and the difficulty, game_mode and
\* player_id that were passed in.
C17_CreatedGameFresh ==
    last.op = "create_game" =>
        /\ game.moves = <<>> /\ game.status = "in_progress" /\ game.time_elapsed = 0
        /\ game.current_word = game.start_word
        /\ game.start_word = Upper(game.start_word)
        /\ game.target_word = Upper(game.target_word)
        /\ game.start_word # game.target_word
        /\ game.difficulty = last.args[1]
        /\ game.game_mode = last.args[2]
        /\ game.player_id = last.args[4]

\* a game was created for a player from a pair that passed both checks
C17_Witness ==
    /\ last.op = "create_game" /\ ~last.fallback
    /\ game.player_id = "bob" /\ game.start_word = LEAD /\ game.target_word = GOLD

\* C18: every Game returned by create_game(word_length = L) has a start_word
\* and a target_word of the same length, which is L for L in {4, 5} and 4 or
\* 5 for every other L.
C18_CreatedGameLengths ==
    last.op = "create_game" =>
        /\ Len(game.start_word) = Len(game.target_word)
        /\ (last.args[3] \in {4, 5} => Len(game.start_word) = last.args[3])
        /\ (last.args[3] \notin {4, 5} => Len(game.start_word) \in {4, 5})

\* a game of length 5 was created after the catalog had offered a pair of
\* six-letter words, one of them a word of the corpus
C18_Witness ==
    /\ last.op = "create_game" /\ last.args[3] = 5
    /\ <<BRIGHT, SHADOW>> \in Range(last.draws)
    /\ SHADOW \in nltk_words_cache
    /\ Len(game.start_word) = 5

\* C19: create_game returns a Game after at most 20 draws; no pair drawn
\* before the last one passes both checks; when the last one passes it is the
\* pair of the Game, and otherwise all 20 draws were made.
C19_FirstPassingPairUsed ==
    last.op = "create_game" =>
        /\ Len(last.draws) \in 1..max_attempts
        /\ \A i \in 1..(Len(last.draws) - 1) : ~PairPasses(last.draws[i])
        /\ IF PairPasses(last.draws[Len(last.draws)])
           THEN /\ ~last.fallback
                /\ game.start_word = Upper(last.draws[Len(last.draws)][1])
                /\ game.target_word = Upper(last.draws[Len(last.draws)][2])
           ELSE Len(last.draws) = max_attempts /\ last.fallback

\* the first pair drawn failed the path check, the second passed and was used
C19_Witness ==
    /\ last.op = "create_game" /\ ~last.fallback
    /\ last.draws = <<<<MILK, CREAM>>, <<LEAD, GOLD>>>>
    /\ game.start_word = LEAD

\* C20: when none of the 20 attempts passes both checks, create_game returns
\* an InProgress Game of the fallback pair, COLD/WARM for word_length 4 and
\* HOUSE/RANCH for 5, without raising, also when find_path returns no path
\* for the fallback pair.
C20_FallbackByLength ==
    (/\ last.op = "create_game"
     /\ Len(last.draws) = max_attempts
     /\ \A i \in DOMAIN last.draws : ~PairPasses(last.draws[i])) =>
        /\ last.fallback /\ last.error = "none"
        /\ game.status = "in_progress"
        /\ (last.args[3] = 4 => game.start_word = COLD /\ game.target_word = WARM)
        /\ (last.args[3] = 5 => game.start_word = HOUSE /\ game.target_word = RANCH)

\* the fallback pair of length 5 was used although no path leads from HOUSE to RANCH
C20_Witness ==
    /\ last.op = "create_game" /\ last.fallback /\ last.args[3] = 5
    /\ Len(last.draws) = max_attempts
    /\ game.start_word = HOUSE /\ game.status = "in_progress"
    /\ find_path(HOUSE, RANCH).path = None

\* C21: find_path(start, target) returns the one-word path of start, in
\* uppercase, whenever the two words are equal after uppercasing, also when
\* the word is not valid; it returns no path whenever they differ and
\* is_valid_word rejects at least one of them; neither call writes to the
\* path cache.
C21_FindPathEarlyReturns ==
    [][last'.op = "find_path" =>
          /\ (Upper(last'.start) = Upper(last'.target) =>
                  last'.path = <<Upper(last'.start)>> /\ path_cache' = path_cache)
          /\ ((/\ Upper(last'.start) # Upper(last'.target)
               /\ (\/ ~is_valid_word("finder", last'.start)
                   \/ ~is_valid_word("finder", last'.target))) =>
                  last'.path = None /\ path_cache' = path_cache)]_vars

\* find_path returned the one-word path of an excluded word, given in two
\* cases, while the path cache held a path
C21_Witness ==
    /\ last.op = "find_path" /\ last.start = Lower(LASER) /\ last.target = LASER
    /\ last.path = <<LASER>>
    /\ ~is_valid_word("finder", LASER)
    /\ DOMAIN path_cache = {CacheKey(COLD, WARM)}

\* C22: for all words start and target, start equal to target included,
\* path_exists(start, target) is true if and only if the path cache holds an
\* entry for (start, target) or a fresh find_path(start, target) returns a path.
C22_PathExistsIffPath ==
    [][last'.op = "path_exists" =>
          (last'.flag <=>
               \/ CacheKey(Upper(last'.start), Upper(last'.target)) \in DOMAIN path_cache
               \/ find_path(last'.start, last'.target).path # None)]_vars

\* C23: when the word graph has a path of at least two words from current to
\* target, get_next_word(current, target) returns the second word of a
\* shortest one, the word a fresh find_path puts second, whether or not the
\* path cache holds the pair; otherwise it returns target, in uppercase.
C23_NextWordOnShortestPath ==
    [][last'.op = "get_next_word" =>
          LET current == Upper(last'.start)
              target == Upper(last'.target)
          IN  IF /\ current # target
                 /\ is_valid_word("finder", current) /\ is_valid_word("finder", target)
                 /\ Distance(current, target) \in 1..max_search_depth
              THEN /\ last'.word = find_path(current, target).path[2]
                   /\ last'.word \in Neighbours(current)
                   /\ Distance(last'.word, target) = Distance(current, target) - 1
              ELSE last'.word = target]_vars

\* the next word towards MOOD was asked for when MOLD, which would be on a
\* path as short, had been added after it was cached as invalid
C23_Witness ==
    /\ last.op = "get_next_word" /\ last.start = COLD /\ last.target = MOOD
    /\ last.word = GOLD
    /\ MOLD \in custom_words["finder"]

\* C24: get_hint on a game that is Completed or Abandoned returns, for every
\* hint_level, a General hint without position and without suggested_letter,
\* and does not raise.
C24_TerminalHintGeneral ==
    (game # NoGame /\ Terminal) =>
        /\ \A hint_level \in HintLevels : HintFor(hint_level) = Hint("general", -1, "")
        /\ (last.op = "get_hint" =>
                last.hint = Hint("general", -1, "") /\ last.error = "none")

\* a hint was asked for on an abandoned game that has a path to its target
C24_Witness ==
    /\ last.op = "get_hint" /\ game.status = "abandoned"
    /\ game.current_word # game.target_word
    /\ find_path(game.current_word, game.target_word).path # None

\* C25: is_valid_word returns false for every word of the exclusion list, in
\* either letter case, also when the word is in the curated word set (as a
\* critical path word) and also after add_word was called with it.
C25_ExcludedNeverValid ==
    /\ \A w \in excluded_words :
           ~is_valid_word("engine", w) /\ ~is_valid_word("engine", Lower(w))
    /\ ((last.op = "is_valid_word" /\ Upper(Strip(last.word)) \in excluded_words) =>
            ~last.flag)

\* add_word was called with an excluded word that is in the curated word set
C25_Witness ==
    /\ last.op = "add_word" /\ last.word = LASER
    /\ LASER \in excluded_words
    /\ LASER \in custom_words["engine"] /\ Lower(LASER) \in custom_words["engine"]
    /\ ~is_valid_word("engine", LASER)

\* the position at which word b differs from word a, for words one letter apart
ChangedPosition(a, b) == CHOOSE i \in DOMAIN a : a[i] # b[i]

\* the place of a letter in the alphabet
LetterRank(c) == CHOOSE k \in DOMAIN UpperLetters : UpperLetters[k] = c

\* C26: get_possible_words(w) returns exactly the valid one-letter
\* substitutions of w, each once, ordered by the position of the substitution
\* from left to right and, within a position, by the substituted letter in
\* alphabetical order.
C26_PossibleWordsOrdered ==
    last.op = "get_possible_words" =>
        LET w == Upper(last.word)
            substitutions == {[w EXCEPT ![i] = c] : i \in DOMAIN w, c \in Range(Alphabet)} \ {w}
        IN  /\ Range(last.words) = {x \in substitutions : is_valid_word("engine", x)}
            /\ \A i, j \in DOMAIN last.words :
                   i < j =>
                       LET a == last.words[i]
                           b == last.words[j]
                       IN  \/ ChangedPosition(w, a) < ChangedPosition(w, b)
                           \/ /\ ChangedPosition(w, a) = ChangedPosition(w, b)
                              /\ LetterRank(a[ChangedPosition(w, a)])
                                     < LetterRank(b[ChangedPosition(w, b)])

\* get_possible_words returned two substitutions at the first position and one
\* at the third
C26_Witness ==
    /\ last.op = "get_possible_words" /\ last.word = COLD
    /\ last.words = <<GOLD, MOLD, CORD>>

\* is a word of targets among the words that at most n steps along the edges
\* of get_possible_words lead to from a word of frontier
RECURSIVE ReachableWithin(_, _, _, _)
ReachableWithin(v, frontier, target_word, n) ==
    IF target_word \in frontier THEN TRUE
    ELSE IF n = 0 \/ frontier = {} THEN FALSE
    ELSE ReachableWithin(v, UNION {Range(get_possible_words(v, w)) : w \in frontier},
                         target_word, n - 1)

\* C27: can_reach_target(start, target, max_depth) returns true if and only
\* if start and target have the same length and at most max_depth one-letter
\* changes, each along an edge of the word graph as get_possible_words gives
\* them, lead from start to target; no change is needed when start equals
\* target.
C27_ReachWithinDepth ==
    last.op = "can_reach_target" =>
        (last.flag <=>
             /\ Len(last.start) = Len(last.target)
             /\ ReachableWithin("engine", {Upper(last.start)}, Upper(last.target),
                                last.max_depth))

\* a target four changes away was searched for with max_depth 3 and not reached
C27_Witness ==
    /\ last.op = "can_reach_target" /\ last.start = COLD /\ last.target = WARM
    /\ last.max_depth = 3 /\ ~last.flag
    /\ ReachableWithin("engine", {COLD}, WARM, 4)

\* C28: get_word_difficulty(word) returns a value in the closed interval
\* [0, 1] for every word of letters whose length lies between min_length and
\* max_length.
C28_DifficultyInUnitInterval ==
    (/\ last.op = "get_word_difficulty"
     /\ IsAlpha(last.word)
     /\ Len(last.word) >= min_word_length /\ Len(last.word) <= max_word_length) =>
        /\ last.difficulty.den > 0
        /\ 0 <= last.difficulty.num
        /\ last.difficulty.num <= last.difficulty.den

\* C29: the status of a game changes only inside make_move: neither the
\* passage of time nor get_hint nor validate_game_state changes it; a game
\* becomes Abandoned only by a make_move on a TIMED game; a CLASSIC game is
\* never Abandoned and keeps time_elapsed equal to 0.
C29_StatusChangesInMakeMove ==
    [][/\ (game # NoGame /\ game'.status # game.status) => last'.op = "make_move"
       /\ (game # NoGame /\ game'.status = "abandoned" /\ game.status # "abandoned") =>
              (last'.op = "make_move" /\ game.game_mode = "TIMED")
       /\ game'.game_mode = "CLASSIC" =>
              (game'.status # "abandoned" /\ game'.time_elapsed = 0)]_vars

\* a move of a CLASSIC game was accepted more than 300 seconds after the game
\* was created
C29_Witness ==
    /\ game.game_mode = "CLASSIC" /\ game.status = "in_progress"
    /\ last.op = "make_move" /\ last.error = "none"
    /\ now - game.created_at > TimeLimit
    /\ game.time_elapsed = 0

\* C30: a make_move on a game in progress, within the time limit, whose word
\* passes the validity, the one-letter-change and the no-revisit check is
\* accepted: the word is appended to moves and becomes current_word, and the
\* MoveResult has moves_count equal to the length of moves; this also when
\* find_path from the new word to target_word returns no path.
C30_MoveAcceptedOffPath ==
    [][\A word \in WanderMoveInputs :
          (/\ game.status = "in_progress"
           /\ ~(game.game_mode = "TIMED" /\ ElapsedSeconds > TimeLimit)
           /\ is_valid_word("engine", Upper(word))
           /\ is_one_letter_change(game.current_word, Upper(word))
           /\ ~Used(word)
           /\ MakeMove(word)) =>
              /\ last'.error = "none"
              /\ game'.moves = Append(game.moves, Upper(word))
              /\ game'.current_word = Upper(word)
              /\ last'.moves_count = Len(game'.moves)]_vars

\* a move was accepted to a word from which no path leads to the target
C30_Witness ==
    /\ last.op = "make_move" /\ last.error = "none" /\ last.moves_count = 1
    /\ game.moves = <<MOUSE>> /\ game.current_word = MOUSE /\ game.target_word = RANCH
    /\ find_path(MOUSE, RANCH).path = None


\* C31: for a game in progress with a path of at least two words from
\* current_word to target_word, the hints of level 2 and level 3 carry the same
\* position, the first 0-based index where current_word and the second word of
\* the path differ; the level-2 hint carries no suggested_letter, the level-1
\* hint carries neither a position nor a suggested_letter; and the hint
\* get_hint returned is the one of its level.
C31_HintPositionsAgree ==
    LET path == find_path(game.current_word, game.target_word).path
    IN  (/\ game # NoGame /\ game.status = "in_progress"
         /\ path # None /\ Len(path) >= 2) =>
            /\ HintFor(2).hint_type = "position"
            /\ HintFor(2).position = HintFor(3).position
            /\ HintFor(2).position + 1 \in DOMAIN game.current_word
            /\ game.current_word[HintFor(2).position + 1] # path[2][HintFor(2).position + 1]
            /\ \A i \in 1..HintFor(2).position : game.current_word[i] = path[2][i]
            /\ HintFor(2).suggested_letter = ""
            /\ HintFor(1).position = -1 /\ HintFor(1).suggested_letter = ""
            /\ (last.op = "get_hint" /\ last.hint_level \in HintLevels) =>
                   last.hint = HintFor(last.hint_level)

\* a level-2 hint was given after a move, for a position that is not the first
C31_Witness ==
    /\ last.op = "get_hint" /\ last.hint_level = 2 /\ last.hint.hint_type = "position"
    /\ game.status = "in_progress" /\ Len(game.moves) >= 1
    /\ last.hint.position > 0 /\ last.hint.suggested_letter = ""


\* C32: the depth bound of find_path is exactly 15 edges: for two different
\* valid words, find_path returns a path, a shortest one, when the shortest
\* distance between them is at most 15, and no path when it is 16 or more or
\* when the target cannot be reached.
C32_DepthBoundFifteen ==
    (/\ last.op = "find_path"
     /\ Upper(last.start) # Upper(last.target)
     /\ is_valid_word("finder", last.start) /\ is_valid_word("finder", last.target)) =>
        /\ Distance(Upper(last.start), Upper(last.target)) \in 1..15 =>
               /\ last.path # None
               /\ Len(last.path) - 1 = Distance(Upper(last.start), Upper(last.target))
        /\ Distance(Upper(last.start), Upper(last.target)) \notin 1..15 =>
               last.path = None

\* searches were made between words 15 and 16 edges apart: the first returned
\* a path and left it in the cache, the second returned none
C32_Witness ==
    /\ last.op = "find_path" /\ last.start = Ladder[1] /\ last.target = Ladder[17]
    /\ last.path = None
    /\ Distance(Ladder[1], Ladder[17]) = 16
    /\ CacheKey(Ladder[1], Ladder[16]) \in DOMAIN path_cache
    /\ Len(path_cache[CacheKey(Ladder[1], Ladder[16])]) = 16


\* C33: in every state reached by create_game and any calls of make_move, the
\* status of the game is Completed exactly when current_word is target_word,
\* and target_word occurs in moves at most once and only as the last element.
C33_CompletedIffAtTarget ==
    game # NoGame =>
        /\ (game.status = "completed") <=> (game.current_word = game.target_word)
        /\ \A i \in DOMAIN game.moves :
               game.moves[i] = game.target_word => i = Len(game.moves)

\* the target was played as the fourth move and a move submitted after that
\* was rejected
C33_Witness ==
    /\ last.op = "make_move" /\ last.error = GameTerminal
    /\ game.status = "completed" /\ Len(game.moves) = 4
    /\ game.moves[4] = game.target_word /\ game.current_word = game.target_word


\* the word a Letter hint suggests: its letter put at its position of current_word
HintedWord(hint) ==
    [game.current_word EXCEPT ![hint.position + 1] = hint.suggested_letter]

\* C34: in every state of a CLASSIC game in progress, the word a level-3 hint
\* suggests is accepted by make_move when it is submitted as the next move.
C34_HintedWordAccepted ==
    (/\ game # NoGame /\ game.game_mode = "CLASSIC" /\ game.status = "in_progress"
     /\ HintFor(3).hint_type = "letter") =>
        MoveError(HintedWord(HintFor(3))) = "none"

\* the words make_move can accept: those the validator of the engine knows
KnownWords ==
    {w \in {Upper(x) : x \in custom_words["engine"] \cup nltk_words_cache \cup wordnet} :
        is_valid_word("engine", w)}

\* does a sequence of moves make_move accepts lead from a word of frontier to
\* target_word, when the words of blocked cannot be played any more
RECURSIVE StillWinnable(_, _, _)
StillWinnable(frontier, blocked, target_word) ==
    IF target_word \in frontier THEN TRUE
    ELSE IF frontier = {} THEN FALSE
    ELSE StillWinnable({w \in KnownWords \ blocked :
                            \E f \in frontier : is_one_letter_change(f, w)},
                       blocked \cup frontier
                           \cup {w \in KnownWords : \E f \in frontier : is_one_letter_change(f, w)},
                       target_word)

\* C35: a CLASSIC game whose pair had a path when it was created can always
\* still be won: from every state in progress that accepted moves lead to,
\* some sequence of accepted moves ends in a Completed game.
C35_AlwaysWinnable ==
    (/\ game # NoGame /\ game.game_mode = "CLASSIC" /\ game.status = "in_progress"
     /\ find_path(game.start_word, game.target_word).path # None) =>
        StillWinnable({game.current_word}, {game.start_word} \cup Range(game.moves),
                      game.target_word)


\* C36: validate_game_state returns true in every state reached by a
\* create_game whose pair passed the validity and the path checks, followed by
\* any calls of make_move, accepted or rejected, when add_word is not called.
C36_ReachedStateValidates ==
    (/\ game # NoGame
     /\ is_valid_word("engine", game.start_word) /\ is_valid_word("engine", game.target_word)
     /\ find_path(game.start_word, game.target_word).path # None) =>
        /\ is_valid_word("engine", game.current_word)
        /\ MovesChain(game)
        /\ last.op = "validate_game_state" => last.flag

\* validate_game_state was called after three accepted moves
C36_Witness ==
    /\ last.op = "validate_game_state" /\ last.flag
    /\ Len(game.moves) = 3 /\ game.status = "in_progress"
    /\ find_path(game.start_word, game.target_word).path # None


\* the outcome of make_move(word0) as the game, the clock and the vocabulary
\* determine it, the caches of the engine left aside
MoveErrorUncached(word0) ==
    LET word == Upper(word0)
    IN  IF game.status # "in_progress" THEN GameTerminal
        ELSE IF game.game_mode = "TIMED" /\ ElapsedSeconds > TimeLimit THEN TimeExceeded
        ELSE IF ~(PassesFormat(word) /\ LookupWord("engine", Upper(Strip(word)), Lower(Strip(word))))
        THEN InvalidWord
        ELSE IF ~is_one_letter_change(game.current_word, word) THEN NotOneLetter
        ELSE IF word \in Range(game.moves) \/ word = game.start_word THEN AlreadyUsed
        ELSE "none"

\* C37: games do not interfere. Whatever requests on the other game came
\* before and whatever they left in the shared caches, make_move accepts or
\* rejects a word as the game itself, the clock and the vocabulary determine
\* (as it does when the requests of the game run alone), the game it leaves is
\* the one those determine, and create_game, make_move and get_hint leave the
\* other game as it was; get_hint leaves both.
C37_GamesDoNotInterfere ==
    [][/\ game # NoGame =>
              \A word \in SharedMoveInputs : MoveError(word) = MoveErrorUncached(word)
       /\ last'.op \in {"create_game", "make_move", "get_hint"} => other_game' = other_game
       /\ last'.op = "make_move" =>
              \E word \in SharedMoveInputs :
                  /\ last'.error = MoveErrorUncached(word)
                  /\ game' = GameAfter(word)
       /\ last'.op = "get_hint" => game' = game]_vars

\* a word was accepted in one game after it had been played in the other
\* game, which is two moves further
C37_Witness ==
    /\ last.op = "make_move" /\ last.error = "none"
    /\ game.moves = <<CORD>> /\ other_game # NoGame
    /\ other_game.moves = <<CORD, WORD>> /\ other_game.status = "in_progress"
    /\ CORD \in DOMAIN wordnet_cache["engine"]


\* C38: the feasibility probe and the search agree in one direction: whenever
\* can_reach_target(start, target) with the default max_depth returns true,
\* find_path(start, target) over the same vocabulary returns a path.
C38_ReachableImpliesPath ==
    (/\ last.op = "can_reach_target" /\ last.max_depth = default_max_depth /\ last.flag
     /\ custom_words["finder"] = custom_words["engine"]) =>
        find_path(last.start, last.target).path # None


\* C39: get_hint leaves the Game as it was (moves, current_word, status,
\* time_elapsed, start_word, target_word and the rest), in every state of the
\* game and for every hint_level, the values outside 1..3 included, and it
\* returns a Hint without raising.
C39_HintLeavesGame ==
    [][last'.op = "get_hint" =>
           /\ game' = game
           /\ last'.error = "none"
           /\ last'.hint.hint_type \in {"semantic", "position", "letter", "general"}]_vars

\* a Letter hint was given after two moves, which are still the moves of the game
C39_Witness ==
    /\ last.op = "get_hint" /\ last.hint_level = 3 /\ last.hint.hint_type = "letter"
    /\ game.status = "in_progress" /\ game.moves = <<CORD, WORD>>
    /\ game.current_word = WORD

\* C40: get_hint reveals a letter only at level 3: for a game in progress with
\* a path, a call with a hint_level outside 1..3 returns a Hint without a
\* suggested_letter.
C40_LetterOnlyAtLevelThree ==
    LET path == find_path(game.current_word, game.target_word).path
    IN  (/\ last.op = "get_hint" /\ last.hint_level \notin HintLevels
         /\ game.status = "in_progress"
         /\ path # None /\ Len(path) >= 2) =>
            last.hint.suggested_letter = ""

=============================================================================
